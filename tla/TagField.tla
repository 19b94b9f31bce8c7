------------------------------- MODULE TagField ------------------------------
(***************************************************************************)
(* A field for a gamertag, with suggestions (apps/web:                     *)
(* gamertag-autocomplete.tsx, link-panel.tsx; apps/api: routes/players.ts; *)
(* packages/read-models: claimable.ts).  A search starts when nothing was  *)
(* typed for a while; its answer comes whenever it comes, and is dropped   *)
(* when another search has started or an option was picked since.          *)
(***************************************************************************)
EXTENDS Integers, Sequences

CONSTANTS
  TagTexts,     \* what the field may hold
  MatchesOf,    \* of a text long enough to be searched for: what the server finds
  OwnTag,       \* the viewer's own tag, never suggested
  MaxKeys,      \* bound: changes of the text
  MaxSearches,  \* bound: searches started
  MaxSearchErrors \* bound: searches and claims that fail

ASSUME TagFieldAssumption ==
  /\ DOMAIN MatchesOf \subseteq TagTexts /\ MatchesOf \in [DOMAIN MatchesOf -> Seq(TagTexts)]
  /\ {MaxKeys, MaxSearches, MaxSearchErrors} \subseteq Nat

VARIABLES
  text,       \* the value of the field
  timer,      \* is a search about to start?
  searches,   \* those started: the text, and "out", "in" or "failed"
  seq,        \* searchSeq
  skip,       \* skipSearch
  list,       \* the suggestions; whether they are shown; the highlighted one
  searched,   \* has a search completed?
  claim,      \* the claim: its text, "none", "sent" or "refused"
  keys, searchErrors,
  strayed     \* history: a search was out when the text became too short, or an option
              \* was picked that was the text

tagVars == <<text, timer, searches, seq, skip, list, searched, claim, keys, searchErrors, strayed>>

NoList == [options |-> <<>>, open |-> FALSE, lit |-> 0]
Searchable(t) == t \in DOMAIN MatchesOf

TagFieldTypeOK ==
  /\ text \in TagTexts /\ {timer, skip, searched, strayed} \subseteq BOOLEAN
  /\ \A i \in DOMAIN searches : searches[i].is \in {"out", "in", "failed"}
  /\ seq \in 0 .. MaxSearches + MaxKeys
  /\ claim.is \in {"none", "sent", "refused"} /\ claim.text \in TagTexts
  /\ keys \in 0 .. MaxKeys /\ searchErrors \in 0 .. MaxSearchErrors

TagFieldInit ==
  /\ text \in TagTexts \ DOMAIN MatchesOf
  /\ timer = FALSE /\ searches = <<>> /\ seq = 0 /\ skip = FALSE
  /\ list = NoList /\ searched = FALSE
  /\ claim = [text |-> text, is |-> "none"]
  /\ keys = 0 /\ searchErrors = 0 /\ strayed = FALSE

Out == {i \in DOMAIN searches : searches[i].is = "out"}

-----------------------------------------------------------------------------
\* The effect of a new text; the timer of the old one is cleared.
TextBecomes(t) ==
  /\ text' = t
  /\ CASE skip -> skip' = FALSE /\ timer' = FALSE /\ UNCHANGED <<list, searched>>
       [] ~skip /\ Searchable(t) -> timer' = TRUE /\ UNCHANGED <<skip, list, searched>>
       [] OTHER -> timer' = FALSE /\ list' = NoList /\ searched' = FALSE /\ UNCHANGED skip

TypesTag(t) ==
  /\ t # text /\ keys < MaxKeys /\ keys' = keys + 1
  /\ TextBecomes(t)
  /\ strayed' = (skip \/ (strayed /\ Out # {}) \/ (~Searchable(t) /\ Out # {}))
  /\ UNCHANGED <<searches, seq, claim, searchErrors>>

StartsSearch ==
  /\ timer /\ Len(searches) < MaxSearches
  /\ timer' = FALSE /\ seq' = seq + 1
  /\ searches' = Append(searches, [text |-> text, is |-> "out", seq |-> seq + 1])
  /\ UNCHANGED <<text, skip, list, searched, claim, keys, searchErrors, strayed>>

\* An answer is for this field while its number is the last given out.
Latest(i) == searches[i].seq = seq
Wanted(i) == Latest(i)

\* What was found, less the viewer's own tag.
Suggested(t) ==
  LET Rest[n \in 0 .. Len(MatchesOf[t])] ==
        IF n = 0 THEN <<>>
        ELSE IF MatchesOf[t][n] = OwnTag THEN Rest[n - 1] ELSE Append(Rest[n - 1], MatchesOf[t][n])
  IN  Rest[Len(MatchesOf[t])]
Shows(options, done) ==
  list' = [options |-> options, open |-> options # <<>>, lit |-> 0] /\ searched' = done

SearchAnswered(i) ==
  /\ i \in Out
  /\ \/ /\ searches' = [searches EXCEPT ![i].is = "in"] /\ UNCHANGED searchErrors
        /\ IF Wanted(i) THEN Shows(Suggested(searches[i].text), TRUE) ELSE UNCHANGED <<list, searched>>
     \/ /\ searchErrors < MaxSearchErrors /\ searchErrors' = searchErrors + 1
        /\ searches' = [searches EXCEPT ![i].is = "failed"]
        /\ IF Wanted(i) THEN Shows(<<>>, FALSE) ELSE UNCHANGED <<list, searched>>
  /\ UNCHANGED <<text, timer, seq, skip, claim, keys, strayed>>

-----------------------------------------------------------------------------
\* The keys.

Arrow(step) ==
  /\ list.options # <<>>
  /\ LET n == Len(list.options)
     IN  list' = [list EXCEPT !.open = TRUE, !.lit =
           IF step = 1 THEN (@ % n) + 1 ELSE IF @ <= 1 THEN n ELSE @ - 1]
  /\ UNCHANGED <<text, timer, searches, seq, skip, searched, claim, keys, searchErrors, strayed>>

EscapesList ==
  /\ list.open /\ list' = [list EXCEPT !.open = FALSE, !.lit = 0]
  /\ UNCHANGED <<text, timer, searches, seq, skip, searched, claim, keys, searchErrors, strayed>>

\* pick: a search out is dropped, and the new text starts none; when it is the old
\* text, no effect runs and skip is left for the next one.
PicksTag(t) ==
  /\ list.open /\ \E i \in DOMAIN list.options : list.options[i] = t
  /\ keys < MaxKeys /\ keys' = keys + 1
  /\ seq' = seq + 1 /\ list' = NoList /\ searched' = FALSE
  /\ text' = t /\ skip' = (t = text) /\ timer' = (timer /\ t = text)
  /\ strayed' = (t = text)
  /\ UNCHANGED <<searches, claim, searchErrors>>

\* LinkTagPanel, and the mutation it is given.
SubmitsClaim ==
  /\ claim.is # "sent" /\ text # "" /\ list.lit = 0
  /\ claim' = [text |-> text, is |-> "sent"]
  /\ UNCHANGED <<text, timer, searches, seq, skip, list, searched, keys, searchErrors, strayed>>

ClaimRefused ==
  /\ claim.is = "sent" /\ searchErrors < MaxSearchErrors /\ searchErrors' = searchErrors + 1
  /\ claim' = [claim EXCEPT !.is = "refused"]
  /\ UNCHANGED <<text, timer, searches, seq, skip, list, searched, keys, strayed>>

TagFieldNext ==
  \/ \E t \in TagTexts : TypesTag(t) \/ PicksTag(t)
  \/ StartsSearch \/ EscapesList \/ Arrow(1) \/ Arrow(-1) \/ SubmitsClaim \/ ClaimRefused
  \/ \E i \in DOMAIN searches : SearchAnswered(i)

-----------------------------------------------------------------------------
\* Properties.

\* With no search due or out, what is suggested is what was found for the text in the
\* field; or nothing, when the text is too short, was picked, or its search failed.  Not
\* so after a search outlived its text, or the text was picked over itself.
SuggestedForTheText ==
  ~timer /\ Out = {} /\ ~strayed =>
    IF searched THEN Searchable(text) /\ list.options = Suggested(text)
    ELSE list.options = <<>>

\* What is announced as found is what is shown, and the highlighted option exists.
ListIsWhole ==
  /\ list.lit \in 0 .. Len(list.options)
  /\ list.open \/ list.lit > 0 => list.options # <<>> /\ searched
  /\ \A i \in DOMAIN list.options : list.options[i] # OwnTag

FieldIsInOrder == TagFieldTypeOK /\ SuggestedForTheText /\ ListIsWhole

=============================================================================
