-------------------------------- MODULE MapPage -----------------------------
(***************************************************************************)
(* The sharing controls on the map page of a verified player who is online *)
(* (apps/web: map-page.tsx, share-panel.tsx, online-list.tsx), against the *)
(* routes of module LocationSharing.  One answer of the server is the only *)
(* source of the chip, the dots and the buttons; a request that settles    *)
(* asks for it anew.  A button waits while pendingFor names its player.    *)
(***************************************************************************)
EXTENDS Naturals, Sequences, SequencesExt

CONSTANTS
  Others,        \* verified players online on the map
  NoAnswer,      \* no data, and nobody's button pending
  MaxRequests,   \* bound: requests on their way at once
  MaxOutages     \* bound: calls that fail or whose answer is lost

ASSUME MapPageAssumption ==
  NoAnswer \notin Others /\ MaxRequests \in Nat \ {0} /\ MaxOutages \in Nat

VARIABLES
  online,      \* whether the viewer's game session is open
  granted,     \* whom the viewer's position is shared with
  answer,      \* the players it said so of, or NoAnswer
  asking,      \* the fetch under way: "no", "asked" or "read", and what it read
  pendingFor,
  requests,    \* in the order they were made
  outages,
  behind,      \* history: something changed, or a fetch failed, unknown to the page
  word,        \* history: what the viewer last asked for each player
  tangled,     \* history: players about whom it was asked while a request was open
  unwaited     \* history: ... though no other request had been made meanwhile

mapPageVars == <<online, granted, answer, asking, pendingFor, requests, outages,
                 behind, word, tangled,
                 unwaited>>

Request == [op : {"share", "stop", "stopAll"}, who : SUBSET Others, landed : BOOLEAN,
            alone : BOOLEAN]

MapPageTypeOK ==
  /\ online \in BOOLEAN /\ granted \subseteq Others
  /\ answer = NoAnswer \/ answer \subseteq Others
  /\ asking.step \in {"no", "asked", "read"} /\ asking.saw \subseteq Others
  /\ pendingFor \in Others \cup {NoAnswer}
  /\ requests \in Seq(Request) /\ Len(requests) <= MaxRequests
  /\ outages \in 0 .. MaxOutages /\ behind \in BOOLEAN
  /\ word \in [Others -> {"none", "share", "stop"}] /\ tangled \cup unwaited \subseteq Others

NotAsking == [step |-> "no", saw |-> {}]
Asked == [step |-> "asked", saw |-> {}]

MapPageInit ==
  /\ online = TRUE /\ granted = {} /\ answer = NoAnswer /\ asking = Asked
  /\ pendingFor = NoAnswer /\ requests = <<>> /\ outages = 0 /\ behind = FALSE
  /\ word = [o \in Others |-> "none"] /\ tangled = {} /\ unwaited = {}

Outage == outages < MaxOutages /\ outages' = outages + 1

-----------------------------------------------------------------------------
\* GET /me/maps/:mapSlug, every half minute and after every request that settles.

Asks ==
  /\ asking = NotAsking /\ asking' = Asked
  /\ UNCHANGED <<online, granted, answer, pendingFor, requests, outages, behind, word, tangled, unwaited>>

Reads ==
  /\ asking.step = "asked" /\ asking' = [step |-> "read", saw |-> granted]
  /\ behind' = FALSE
  /\ UNCHANGED <<online, granted, answer, pendingFor, requests, outages, word, tangled, unwaited>>

Answers ==
  /\ asking.step = "read" /\ asking' = NotAsking /\ answer' = asking.saw
  /\ UNCHANGED <<online, granted, pendingFor, requests, outages, behind, word, tangled, unwaited>>

AskingFails ==
  /\ asking # NotAsking /\ Outage /\ asking' = NotAsking /\ behind' = TRUE
  /\ UNCHANGED <<online, granted, answer, pendingFor, requests, word, tangled, unwaited>>

-----------------------------------------------------------------------------
\* The chip and the buttons.

OpenAbout(o) == {i \in DOMAIN requests : o \in requests[i].who}

Opens(op, who) ==
  /\ Len(requests) < MaxRequests
  /\ requests' = Append([i \in DOMAIN requests |-> [requests[i] EXCEPT !.alone = FALSE]],
                        [op |-> op, who |-> who, landed |-> FALSE, alone |-> requests = <<>>])
  /\ word' = [o \in Others |-> IF o \notin who THEN word[o]
                               ELSE IF op = "share" THEN "share" ELSE "stop"]
  /\ tangled' = (tangled \ who) \cup {o \in who : OpenAbout(o) # {}}
  /\ unwaited' = unwaited \cup
       {o \in who : op # "stopAll" /\ \E i \in OpenAbout(o) :
                       requests[i].alone /\ requests[i].op # "stopAll"}

\* disabled={pendingFor === p.gamertag}
Waits(o) == pendingFor = o
Disabled(o) == Waits(o)

Clicks(o) ==
  /\ answer # NoAnswer /\ ~Disabled(o) /\ pendingFor' = o
  /\ Opens(IF o \in answer THEN "stop" ELSE "share", {o})
  /\ UNCHANGED <<online, granted, answer, asking, outages, behind>>

\* "N can see you", with its Stop; it waits for itself only.
StopsAll ==
  /\ answer \notin {NoAnswer, {}}
  /\ \A i \in DOMAIN requests : requests[i].op # "stopAll"
  /\ Opens("stopAll", Others)
  /\ UNCHANGED <<online, granted, answer, asking, pendingFor, outages, behind>>

\* At the server: a share is refused to whoever is offline.
Lands(i) ==
  /\ ~requests[i].landed
  /\ granted' = IF requests[i].op # "share" THEN granted \ requests[i].who
                ELSE IF online THEN granted \cup requests[i].who ELSE granted
  /\ requests' = [requests EXCEPT ![i].landed = TRUE]
  /\ UNCHANGED <<online, answer, asking, pendingFor, outages, behind, word, tangled, unwaited>>

\* invalidateQueries: a fetch under way is thrown away, for it may have read before.
Invalidated == Asked

\* onSettled, whichever way the request ended.
Settles(i) ==
  /\ \/ requests[i].landed /\ UNCHANGED <<outages, word>>
     \/ Outage /\ word' = [o \in Others |-> IF o \in requests[i].who THEN "none" ELSE word[o]]
  /\ requests' = RemoveAt(requests, i)
  /\ pendingFor' = IF requests[i].op = "stopAll" THEN pendingFor ELSE NoAnswer
  /\ asking' = Invalidated
  /\ UNCHANGED <<online, granted, answer, behind, tangled, unwaited>>

\* Every grant dies with the session that made it.
SessionEnds ==
  /\ online /\ online' = FALSE /\ granted' = {} /\ behind' = TRUE
  /\ word' = [o \in Others |-> "none"]
  /\ UNCHANGED <<answer, asking, pendingFor, requests, outages, tangled, unwaited>>

MapPageNext ==
  \/ Asks \/ Reads \/ Answers \/ AskingFails \/ StopsAll \/ SessionEnds
  \/ \E o \in Others : Clicks(o)
  \/ \E i \in DOMAIN requests : Lands(i) \/ Settles(i)

MapPageSpec == MapPageInit /\ [][MapPageNext]_mapPageVars

-----------------------------------------------------------------------------
\* Properties.

\* When all is quiet the page says what the server has, unless the session ended or a
\* fetch failed since.
ChipIsTrue ==
  requests = <<>> /\ asking = NotAsking /\ answer # NoAnswer /\ ~behind => answer = granted

\* What the viewer asked last of a player stands, unless it was asked while another
\* request about that player was open.
LastWordStands ==
  \A o \in Others \ tangled :
    OpenAbout(o) = {} => /\ (word[o] = "stop" => o \notin granted)
                        /\ (word[o] = "share" /\ online => o \in granted)

\* That takes a second player's button, or the chip's: one button waits for itself.
ButtonsWait == unwaited = {}

\* The page agrees with the server, and the server with the viewer (and the variables
\* are of their types).
MapIsAsAgreed == MapPageTypeOK /\ ChipIsTrue /\ LastWordStands /\ ButtonsWait

=============================================================================
