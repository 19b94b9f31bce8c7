---------------------------- MODULE GamertagLinks ---------------------------
(***************************************************************************)
(* Who may call a gamertag theirs: users claim and cancel links through    *)
(* the API (apps/api/src/routes/gamertag-links.ts) while the verifier      *)
(* (apps/verifier) reads the emotes of the event log and verifies a link   *)
(* when its player has performed the sequence of its challenge.            *)
(*                                                                         *)
(* What an emote is does not matter, only for which challenges it is the   *)
(* one awaited: that is left open.  Time is the number of emotes           *)
(* performed so far.  An API request reads first and writes later; other   *)
(* writers may come in between.                                            *)
(***************************************************************************)
EXTENDS Integers, Sequences, FiniteSets, FiniteSetsExt

CONSTANTS
  Users, Tags,
  None,           \* SQL null
  VerifiedLinks,  \* links verified before: a sequence of [user, tag]
  SeqLength,      \* emotes of a challenge
  MaxLinks,       \* bound: rows of gamertag_links
  MaxEmotes,      \* bound: emotes performed
  MaxRequests     \* bound: requests the API serves

ASSUME LinksAssumption ==
  /\ None \notin Users \cup Tags
  /\ VerifiedLinks \in Seq([user: Users, tag: Tags])
  /\ \A i, j \in DOMAIN VerifiedLinks :
       \/ i = j
       \/ /\ VerifiedLinks[i].user # VerifiedLinks[j].user
          /\ VerifiedLinks[i].tag # VerifiedLinks[j].tag
  /\ SeqLength \in Nat \ {0}
  /\ MaxLinks \in Nat /\ MaxEmotes \in Nat /\ MaxRequests \in Nat

VARIABLES
  users,       \* accounts that exist
  links,       \* gamertag_links; the index is the id
  challenges,  \* verification_challenges; the index is the id
  emotes,      \* the gamertags of the emotes in the event log, in order
  verifier,    \* its cursor, and what it has read of the next emote
  requests,    \* claims and cancellations that have read and not yet written
  served       \* requests begun

linkVars == <<users, links, challenges, emotes, verifier, requests>>

\* A row of a deleted account stays in the sequence as "gone".
LinkRow == [user: Users, tag: Tags,
            status: {"pending", "verified", "cancelled", "gone"}]
\* An emote counts from after issued until the 24 hours are over.
ChallengeRow == [link: Nat, issued: 0 .. MaxEmotes, until: 0 .. MaxEmotes \cup {None},
                 progress: 0 .. SeqLength, last: 0 .. MaxEmotes]
Nothing == [at |-> 0, hits |-> {}]
\* saw is history: the links verified when the request read.
Request == [kind: {"claim", "cancel"}, user: Users, tag: Tags, link: Nat,
            saw: SUBSET Nat]

LinksTypeOK ==
  /\ users \subseteq Users
  /\ links \in Seq(LinkRow)
  /\ challenges \in Seq(ChallengeRow)
  /\ emotes \in Seq(Tags)
  /\ verifier \in [cursor: 0 .. Len(emotes),
                   batch: [at: 0 .. Len(emotes), hits: SUBSET (1 .. Len(challenges))]]
  /\ requests \subseteq Request
  /\ served \in 0 .. MaxRequests

LinksInit ==
  /\ users = Users
  /\ links = [i \in DOMAIN VerifiedLinks |->
                [user |-> VerifiedLinks[i].user, tag |-> VerifiedLinks[i].tag,
                 status |-> "verified"]]
  /\ challenges = <<>> /\ emotes = <<>>
  /\ verifier = [cursor |-> 0, batch |-> Nothing]
  /\ requests = {} /\ served = 0

-----------------------------------------------------------------------------
WithStatus(S) == {l \in DOMAIN links : links[l].status \in S}
Verified == WithStatus({"verified"})
Active == WithStatus({"pending", "verified"})
VerifiedAs(t) == {l \in Verified : links[l].tag = t}
ActiveOf(u) == {l \in Active : links[l].user = u}
\* verifiedOf, isVerifiedUser: the user has a verified link.
IsVerified(u) == \E l \in Verified : links[l].user = u

Open(r) == requests' = requests \cup {r}
Close(r) == requests' = requests \ {r}
Serve == served < MaxRequests /\ served' = served + 1

-----------------------------------------------------------------------------
\* POST /me/gamertag-links

ClaimReads(u, t) ==
  /\ u \in users
  /\ Serve
  /\ VerifiedAs(t) = {}
  /\ \A l \in ActiveOf(u) : links[l].tag = t
  /\ Open([kind |-> "claim", user |-> u, tag |-> t, link |-> 0, saw |-> Verified])
  /\ UNCHANGED <<users, links, challenges, emotes, verifier>>

\* The user's row of that gamertag is used again, or a new one is added.
RowOf(u, t) ==
  LET own == {l \in DOMAIN links : links[l].user = u /\ links[l].tag = t
                                   /\ links[l].status # "gone"}
  IN  IF own = {} THEN Len(links) + 1 ELSE Min(own)

Pending(u, t) ==
  LET row == [user |-> u, tag |-> t, status |-> "pending"]
  IN  IF RowOf(u, t) > Len(links) THEN Append(links, row)
      ELSE [links EXCEPT ![RowOf(u, t)] = row]

IsLive(c) == c.until = None /\ c.progress < SeqLength

\* A live challenge is used again.
Challenged(l) ==
  IF \E i \in DOMAIN challenges : challenges[i].link = l /\ IsLive(challenges[i])
  THEN challenges
  ELSE Append(challenges, [link |-> l, issued |-> Len(emotes), until |-> None,
                           progress |-> 0, last |-> 0])

\* The unique indexes on the user's active link, and the key of users.
ClaimAllowed(u, t) == u \in users /\ ActiveOf(u) \subseteq {RowOf(u, t)}

ClaimWrites(r) ==
  /\ r.kind = "claim"
  /\ Close(r)
  /\ IF ClaimAllowed(r.user, r.tag)
     THEN /\ Len(Pending(r.user, r.tag)) <= MaxLinks
          /\ links' = Pending(r.user, r.tag)
          /\ challenges' = Challenged(RowOf(r.user, r.tag))
     ELSE UNCHANGED <<links, challenges>>
  /\ UNCHANGED <<users, emotes, verifier, served>>

-----------------------------------------------------------------------------
\* DELETE /me/gamertag-links/:id

\* Faulty variant of CancelReads: any link of the user's own can be cancelled.
CancelReadsAny(l) ==
  /\ links[l].status # "gone"
  /\ Serve
  /\ Open([kind |-> "cancel", user |-> links[l].user, tag |-> links[l].tag,
           link |-> l, saw |-> Verified])
  /\ UNCHANGED <<users, links, challenges, emotes, verifier>>

CancelReads(l) ==
  /\ links[l].status = "pending"
  /\ Serve
  /\ Open([kind |-> "cancel", user |-> links[l].user, tag |-> links[l].tag,
           link |-> l, saw |-> Verified])
  /\ UNCHANGED <<users, links, challenges, emotes, verifier>>

CancelWrites(r) ==
  /\ r.kind = "cancel"
  /\ Close(r)
  /\ links' = IF links[r.link].status = "gone" THEN links
              ELSE [links EXCEPT ![r.link].status = "cancelled"]
  /\ UNCHANGED <<users, challenges, emotes, verifier, served>>

\* deleteAccount: the user's challenges and links go, in one transaction.
LinksWithout(u) ==
  [l \in DOMAIN links |->
     IF links[l].user = u THEN [links[l] EXCEPT !.status = "gone"] ELSE links[l]]

AccountGone(u) ==
  /\ u \in users
  /\ Serve
  /\ users' = users \ {u}
  /\ links' = LinksWithout(u)
  /\ UNCHANGED <<challenges, emotes, verifier, requests>>

-----------------------------------------------------------------------------
\* The game, and time.

Perform(t) ==
  /\ Len(emotes) < MaxEmotes
  /\ emotes' = Append(emotes, t)
  /\ UNCHANGED <<users, links, challenges, verifier, requests, served>>

Expire(i) ==
  /\ IsLive(challenges[i])
  /\ challenges' = [challenges EXCEPT ![i].until = Len(emotes)]
  /\ UNCHANGED <<users, links, emotes, verifier, requests, served>>

-----------------------------------------------------------------------------
\* The verifier.  Its transaction reads the open challenges of an emote and then
\* updates challenges and links by id.

\* findPendingChallenges and the guard against an emote already counted.
Awaiting(i, at) ==
  /\ links[challenges[i].link].tag = emotes[at]
  /\ links[challenges[i].link].status = "pending"
  /\ challenges[i].progress < SeqLength
  /\ challenges[i].issued < at
  /\ challenges[i].until = None \/ at <= challenges[i].until
  /\ challenges[i].last < at

ReadEmote ==
  /\ verifier.batch = Nothing /\ verifier.cursor < Len(emotes)
  /\ LET at == verifier.cursor + 1
     IN  \E hits \in SUBSET {i \in DOMAIN challenges : Awaiting(i, at)} :
           verifier' = [verifier EXCEPT !.batch = [at |-> at, hits |-> hits]]
  /\ UNCHANGED <<users, links, challenges, emotes, requests, served>>

Completing ==
  {i \in verifier.batch.hits : challenges[i].progress + 1 = SeqLength}

Done == {challenges[i].link : i \in Completing}

\* An update by id finds no row of a deleted account.
Found(S) == {l \in S : links[l].status # "gone"}

\* The first to complete in the order of link ids whose row is still there, unless
\* another link already holds the name.
Winning(t) == IF Found(Done) = {} \/ VerifiedAs(t) # {} THEN {} ELSE {Min(Found(Done))}

\* The others of one batch that complete, and all that wait for a name nobody held,
\* even when who completed is gone.
Losing(t) ==
  (Found(Done) \cup
     {l \in WithStatus({"pending"}) : links[l].tag = t /\ Done # {} /\ VerifiedAs(t) = {}})
  \ Winning(t)

\* Would verifying break the index on the user's active link?
Collides(S) == \E l \in S : ActiveOf(links[l].user) \ {l} # {}

Judged(t) ==
  [l \in DOMAIN links |->
     CASE l \in Winning(t) -> [links[l] EXCEPT !.status = "verified"]
       [] l \in Losing(t) -> [links[l] EXCEPT !.status = "cancelled"]
       [] OTHER -> links[l]]

Advanced ==
  [i \in DOMAIN challenges |->
     IF i \in verifier.batch.hits
     THEN [challenges[i] EXCEPT !.progress = @ + 1, !.last = verifier.batch.at]
     ELSE challenges[i]]

\* The cursor is set in the same transaction.
FoldEmote ==
  /\ verifier.batch # Nothing
  /\ LET t == emotes[verifier.batch.at]
     IN  /\ ~Collides(Winning(t))
         /\ links' = Judged(t)
  /\ challenges' = Advanced
  /\ verifier' = [cursor |-> verifier.batch.at, batch |-> Nothing]
  /\ UNCHANGED <<users, emotes, requests, served>>

\* A unique violation, another error or a crash rolls everything back.
FoldFails ==
  /\ verifier.batch # Nothing
  /\ verifier' = [verifier EXCEPT !.batch = Nothing]
  /\ UNCHANGED <<users, links, challenges, emotes, requests, served>>

-----------------------------------------------------------------------------
LinkRequest ==
  \/ \E u \in Users, t \in Tags : ClaimReads(u, t)
  \/ \E l \in DOMAIN links : CancelReads(l)
  \/ \E r \in requests : ClaimWrites(r) \/ CancelWrites(r)

Passing ==
  \/ \E t \in Tags : Perform(t)
  \/ \E i \in DOMAIN challenges : Expire(i)
  \/ ReadEmote \/ FoldFails

-----------------------------------------------------------------------------
\* Properties.

\* A name is held by one user at most and a user holds or claims one name at
\* most, although the verifier decides on rows it has read before.
OneHolder ==
  /\ \A l, m \in Verified : links[l].tag = links[m].tag => l = m
  /\ \A l, m \in Active : links[l].user = links[m].user => l = m

\* A challenge is completed by as many emotes of the claimed player as it is
\* long, all performed while it was open: emotes from before the claim, of other
\* players, or counted twice do not verify.
VerificationIsEarned ==
  \A i \in DOMAIN challenges :
    LET c == challenges[i]
    IN  c.progress <= Cardinality({at \in 1 .. Len(emotes) :
                                     /\ emotes[at] = links[c.link].tag
                                     /\ c.issued < at /\ at <= c.last
                                     /\ c.until = None \/ at <= c.until})

\* A gamertag belongs to at most one user, who performed its challenge's emotes.
NamesAreEarned == OneHolder /\ VerificationIsEarned

\* A verified link is permanent: only its account's deletion takes it, or a
\* claim or cancellation that had read before the link was verified and writes
\* over the verifier's result (the race the route leaves open).
VerifiedStays ==
  [][\A l \in DOMAIN links : l \in Verified =>
       \/ links'[l].status = "verified"
       \/ links'[l].status = "gone" /\ links[l].user \notin users'
       \/ \E r \in requests \ requests' : l \notin r.saw]_linkVars

\* A name is its holder's: never two holders, never one who did not perform its
\* challenge, and once earned it stays, whatever the routes and the verifier
\* read before the other wrote.
NamesAreKept == []NamesAreEarned /\ VerifiedStays

=============================================================================
