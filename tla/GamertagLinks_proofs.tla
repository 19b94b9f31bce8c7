------------------------ MODULE GamertagLinks_proofs ------------------------
(***************************************************************************)
(* What the claims, the cancellations and the verifier preserve, for every *)
(* set of users and gamertags and every bound.  GamertagLinks is a part of *)
(* TokenLedger and SocialLayer: their specifications take these lemmas.    *)
(***************************************************************************)
EXTENDS GamertagLinks, FiniteSetTheorems, SequenceTheorems, TLAPS

\* A challenge is some link's.  A claim that has read saw nobody verified of
\* its name, a cancellation saw its link not verified.
RefsHold ==
  /\ Len(emotes) <= MaxEmotes
  /\ \A i \in DOMAIN challenges : challenges[i].link \in DOMAIN links
  /\ \A r \in requests :
       /\ \A l \in r.saw : l \in DOMAIN links
       /\ r.kind = "claim" => \A l \in r.saw : links[l].tag # r.tag
       /\ r.kind = "cancel" => r.link \in DOMAIN links \ r.saw

\* What the verifier has read of an emote is still so when it writes: only
\* whether a link is pending may have changed, and never to verified.
BatchStands ==
  verifier.batch # Nothing =>
    /\ verifier.batch.at \in 1 .. Len(emotes)
    /\ \A i \in verifier.batch.hits :
         /\ i \in DOMAIN challenges
         /\ links[challenges[i].link].tag = emotes[verifier.batch.at]
         /\ links[challenges[i].link].status # "verified"
         /\ challenges[i].progress < SeqLength
         /\ challenges[i].issued < verifier.batch.at
         /\ challenges[i].until = None \/ verifier.batch.at <= challenges[i].until
         /\ challenges[i].last < verifier.batch.at

LinksInv == LinksTypeOK /\ RefsHold /\ BatchStands /\ NamesAreEarned

\* The emotes that count for a challenge.
Counted(i) ==
  {at \in 1 .. Len(emotes) :
     /\ emotes[at] = links[challenges[i].link].tag
     /\ challenges[i].issued < at /\ at <= challenges[i].last
     /\ challenges[i].until = None \/ at <= challenges[i].until}

Earned(i) == challenges[i].progress <= Cardinality(Counted(i))

LEMMA EarnedEach == VerificationIsEarned <=> \A i \in DOMAIN challenges : Earned(i)
  BY DEF VerificationIsEarned, Earned, Counted

-----------------------------------------------------------------------------
\* Tables, and the least of a set of ids.

LEMMA LinkTables ==
  ASSUME LinksTypeOK
  PROVE  /\ Len(links) \in Nat /\ DOMAIN links = 1 .. Len(links)
         /\ \A l \in DOMAIN links : links[l] \in LinkRow
         /\ Len(challenges) \in Nat /\ DOMAIN challenges = 1 .. Len(challenges)
         /\ \A i \in DOMAIN challenges : challenges[i] \in ChallengeRow
         /\ Len(emotes) \in Nat /\ DOMAIN emotes = 1 .. Len(emotes)
         /\ \A at \in DOMAIN emotes : emotes[at] \in Tags
  BY ElementOfSeq, LenProperties DEF LinksTypeOK

LEMMA LinkSeq ==
  ASSUME NEW R, NEW n \in Nat, NEW f \in [1 .. n -> R]
  PROVE  f \in Seq(R) /\ Len(f) = n /\ DOMAIN f = 1 .. n
<1>1. f \in Seq(R)
  BY SeqDef
<1>2. Len(f) \in Nat /\ DOMAIN f = 1 .. Len(f)
  BY <1>1, LenProperties
<1>3. Len(f) = n
  BY <1>2
<1> QED
  BY <1>1, <1>3

LEMMA LeastOfIds ==
  ASSUME NEW S \in SUBSET Nat, S # {}
  PROVE  Min(S) \in S /\ \A x \in S : Min(S) <= x
<1> DEFINE T == {0 .. x : x \in S}
<1>1. T \subseteq FiniteSubsetsOf(Nat) /\ T # {}
  <2>1. \A x \in S : 0 .. x \subseteq Nat /\ IsFiniteSet(0 .. x)
    BY FS_Interval
  <2> QED
    BY <2>1 DEF FiniteSubsetsOf
<1>2. PICK i \in T : \A j \in T : ~(<<j, i>> \in StrictSubsetOrdering(Nat))
  BY <1>1, FS_StrictSubsetOrderingWellFounded, WFMin
<1>3. PICK m \in S : i = 0 .. m
  OBVIOUS
<1>4. ASSUME NEW x \in S PROVE m <= x
  <2>1. <<0 .. x, 0 .. m>> \notin StrictSubsetOrdering(Nat)
    BY <1>2, <1>3
  <2>2. 0 .. x \in SUBSET Nat /\ 0 .. m \in SUBSET Nat
    OBVIOUS
  <2>3. ~(0 .. x \subseteq 0 .. m /\ 0 .. x # 0 .. m)
    BY <2>1, <2>2 DEF StrictSubsetOrdering
  <2> QED
    BY <2>3
<1> QED
  BY <1>4 DEF Min

LEMMA CountedFinite ==
  ASSUME NEW n \in Nat, NEW S \in SUBSET (1 .. n)
  PROVE  IsFiniteSet(S) /\ Cardinality(S) \in Nat
<1>1. IsFiniteSet(1 .. n)
  BY FS_Interval
<1>2. IsFiniteSet(S)
  BY <1>1, FS_Subset
<1> QED
  BY <1>2, FS_CardinalityType

-----------------------------------------------------------------------------
\* What a change of the tables leaves true.

\* Emotes that counted go on counting, a challenge that expires included.
LEMMA StillEarned ==
  ASSUME LinksInv, LinksTypeOK', NEW i \in DOMAIN challenges,
         Len(emotes) <= Len(emotes'),
         \A at \in 1 .. Len(emotes) : emotes'[at] = emotes[at],
         links'[challenges[i].link].tag = links[challenges[i].link].tag,
         challenges'[i].link = challenges[i].link,
         challenges'[i].issued = challenges[i].issued,
         challenges'[i].progress = challenges[i].progress,
         challenges'[i].last = challenges[i].last,
         \/ challenges'[i].until = challenges[i].until
         \/ challenges[i].until = None /\ challenges'[i].until = Len(emotes)
  PROVE  Earned(i)'
<1>1. Len(emotes) \in Nat /\ Len(emotes') \in Nat
  BY LenProperties DEF LinksInv, LinksTypeOK
<1>2. Counted(i) \subseteq Counted(i)'
  <2> SUFFICES ASSUME NEW at \in Counted(i) PROVE at \in Counted(i)'
    OBVIOUS
  <2>1. at \in 1 .. Len(emotes) /\ at <= Len(emotes) /\ at \in 1 .. Len(emotes')
    BY <1>1 DEF Counted
  <2> QED
    BY <2>1 DEF Counted
<1>3. /\ Counted(i)' \in SUBSET (1 .. Len(emotes'))
      /\ Counted(i) \in SUBSET (1 .. Len(emotes))
  BY DEF Counted
<1>4. /\ IsFiniteSet(Counted(i)') /\ Cardinality(Counted(i)') \in Nat
      /\ Cardinality(Counted(i)) \in Nat
  BY <1>1, <1>3, CountedFinite
<1>5. Cardinality(Counted(i)) <= Cardinality(Counted(i)')
  BY <1>2, <1>4, FS_Subset
<1>6. Earned(i)
  BY EarnedEach DEF LinksInv, NamesAreEarned
<1>7. challenges[i].progress \in Nat
  BY LinkTables DEF LinksInv, ChallengeRow
<1> QED
  BY <1>4, <1>5, <1>6, <1>7 DEF Earned

\* Rows of links may be added or lose their holder, challenges be added.
LEMMA LinksRewritten ==
  ASSUME LinksInv, LinksTypeOK',
         UNCHANGED <<emotes, verifier>>, requests' \subseteq requests,
         DOMAIN links \subseteq DOMAIN links',
         \A l \in DOMAIN links :
           /\ links'[l].tag = links[l].tag
           /\ links'[l].status = "verified" => links[l].status = "verified",
         DOMAIN challenges \subseteq DOMAIN challenges',
         \A i \in DOMAIN challenges : challenges'[i] = challenges[i],
         \A i \in DOMAIN challenges' \ DOMAIN challenges :
           challenges'[i].link \in DOMAIN links' /\ challenges'[i].progress = 0
  PROVE  RefsHold' /\ BatchStands' /\ VerificationIsEarned'
<1> USE DEF LinksInv
<1>1. RefsHold'
  BY DEF RefsHold
<1>2. BatchStands'
  BY DEF BatchStands, RefsHold
<1>3. VerificationIsEarned'
  <2>1. ASSUME NEW i \in DOMAIN challenges PROVE Earned(i)'
    <3>1. Len(emotes') = Len(emotes) /\ Len(emotes) <= Len(emotes')
      BY LinkTables
    <3>2. challenges[i].link \in DOMAIN links
      BY DEF RefsHold
    <3> QED
      BY <3>1, <3>2, StillEarned
  <2>2. ASSUME NEW i \in DOMAIN challenges' \ DOMAIN challenges PROVE Earned(i)'
    <3>1. Len(emotes') \in Nat /\ Counted(i)' \in SUBSET (1 .. Len(emotes'))
      BY LenProperties DEF LinksTypeOK, Counted
    <3>2. Cardinality(Counted(i)') \in Nat
      BY <3>1, CountedFinite
    <3> QED
      BY <2>2, <3>2 DEF Earned
  <2> QED
    BY <2>1, <2>2 DEF VerificationIsEarned, Earned, Counted
<1> QED
  BY <1>1, <1>2, <1>3

-----------------------------------------------------------------------------
\* The requests.

LEMMA LinksInitInv == LinksInit => LinksInv
<1> SUFFICES ASSUME LinksInit PROVE LinksInv
  OBVIOUS
<1> USE LinksAssumption DEF LinksInit
<1>1. /\ Len(VerifiedLinks) \in Nat /\ DOMAIN VerifiedLinks = 1 .. Len(VerifiedLinks)
      /\ \A i \in DOMAIN VerifiedLinks : VerifiedLinks[i] \in [user: Users, tag: Tags]
  BY ElementOfSeq, LenProperties
<1>2. links \in Seq(LinkRow)
  <2>1. links \in [1 .. Len(VerifiedLinks) -> LinkRow]
    BY <1>1 DEF LinkRow
  <2> QED
    BY <1>1, <2>1, LinkSeq
<1>3. challenges \in Seq(ChallengeRow) /\ emotes \in Seq(Tags) /\ Len(emotes) = 0
  BY EmptySeq
<1>4. LinksTypeOK
  BY <1>2, <1>3 DEF LinksTypeOK, Nothing
<1>5. RefsHold /\ BatchStands /\ VerificationIsEarned
  BY <1>3 DEF RefsHold, BatchStands, VerificationIsEarned
<1>6. OneHolder
  BY <1>1 DEF OneHolder, Verified, Active, WithStatus
<1> QED
  BY <1>4, <1>5, <1>6 DEF LinksInv, NamesAreEarned

\* The requests are a part of the invariant of their own.
LEMMA RequestOpened ==
  ASSUME LinksInv, NEW r \in Request, Open(r), Serve,
         UNCHANGED <<users, links, challenges, emotes, verifier>>,
         \A l \in r.saw : l \in DOMAIN links,
         r.kind = "claim" => \A l \in r.saw : links[l].tag # r.tag,
         r.kind = "cancel" => r.link \in DOMAIN links \ r.saw
  PROVE  LinksInv'
<1>1. LinksTypeOK'
  BY LinksAssumption DEF LinksInv, LinksTypeOK, Open, Serve
<1>2. RefsHold'
  BY DEF LinksInv, RefsHold, Open
<1>3. BatchStands'
  BY DEF LinksInv, BatchStands
<1>4. NamesAreEarned'
  BY DEF LinksInv, NamesAreEarned, OneHolder, VerificationIsEarned, Verified, Active,
         WithStatus
<1> QED
  BY <1>1, <1>2, <1>3, <1>4 DEF LinksInv

LEMMA ClaimReadsStep ==
  ASSUME LinksInv, NEW u \in Users, NEW t \in Tags, ClaimReads(u, t)
  PROVE  LinksInv'
<1> DEFINE r == [kind |-> "claim", user |-> u, tag |-> t, link |-> 0, saw |-> Verified]
<1>1. Verified \subseteq DOMAIN links /\ Verified \subseteq Nat
  BY LinkTables DEF Verified, WithStatus, LinksInv
<1>2. r \in Request
  BY <1>1 DEF Request
<1>3. \A l \in r.saw : l \in DOMAIN links /\ links[l].tag # r.tag
  BY <1>1 DEF ClaimReads, VerifiedAs
<1> QED
  BY <1>2, <1>3, RequestOpened DEF ClaimReads

LEMMA CancelReadsStep ==
  ASSUME LinksInv, NEW l \in DOMAIN links, CancelReads(l)
  PROVE  LinksInv'
<1> DEFINE r == [kind |-> "cancel", user |-> links[l].user, tag |-> links[l].tag,
                 link |-> l, saw |-> Verified]
<1>1. Verified \subseteq DOMAIN links /\ Verified \subseteq Nat /\ l \in Nat
  BY LinkTables DEF Verified, WithStatus, LinksInv
<1>2. r \in Request
  BY <1>1, LinkTables DEF Request, LinksInv, LinkRow
<1>3. l \notin Verified
  BY DEF CancelReads, Verified, WithStatus
<1> QED
  BY <1>1, <1>2, <1>3, RequestOpened DEF CancelReads

\* The row a claim writes is the user's own row of that gamertag, or a new one.
LEMMA RowOfClaim ==
  ASSUME LinksTypeOK, NEW u \in Users, NEW t \in Tags
  PROVE  \/ RowOf(u, t) = Len(links) + 1
         \/ /\ RowOf(u, t) \in DOMAIN links
            /\ links[RowOf(u, t)].user = u /\ links[RowOf(u, t)].tag = t
<1> DEFINE own == {l \in DOMAIN links : links[l].user = u /\ links[l].tag = t
                                        /\ links[l].status # "gone"}
<1>1. own \in SUBSET Nat
  BY LinkTables
<1>2. CASE own = {}
  BY <1>2 DEF RowOf
<1>3. CASE own # {}
  <2>1. Min(own) \in own
    BY <1>1, <1>3, LeastOfIds
  <2>2. RowOf(u, t) = Min(own)
    BY <1>3 DEF RowOf
  <2> QED
    BY <2>1, <2>2
<1> QED
  BY <1>2, <1>3

LEMMA PendingRows ==
  ASSUME LinksTypeOK, NEW u \in Users, NEW t \in Tags
  PROVE  /\ Pending(u, t) \in Seq(LinkRow)
         /\ DOMAIN Pending(u, t) = DOMAIN links \cup {RowOf(u, t)}
         /\ Pending(u, t)[RowOf(u, t)] = [user |-> u, tag |-> t, status |-> "pending"]
         /\ \A l \in DOMAIN links \ {RowOf(u, t)} : Pending(u, t)[l] = links[l]
<1> DEFINE row == [user |-> u, tag |-> t, status |-> "pending"]
<1>1. row \in LinkRow
  BY DEF LinkRow
<1>2. links \in Seq(LinkRow) /\ Len(links) \in Nat /\ DOMAIN links = 1 .. Len(links)
  BY LinkTables DEF LinksTypeOK
<1> HIDE DEF row
<1>3. CASE RowOf(u, t) = Len(links) + 1
  <2>1. Pending(u, t) = Append(links, row)
    BY <1>2, <1>3 DEF Pending, row
  <2>2. Append(links, row) \in Seq(LinkRow)
    BY <1>1, <1>2, AppendProperties
  <2>3. /\ DOMAIN Append(links, row) = 1 .. Len(links) + 1
        /\ Append(links, row)[Len(links) + 1] = row
        /\ \A l \in 1 .. Len(links) : Append(links, row)[l] = links[l]
    BY <1>1, <1>2, <2>2, AppendProperties, LenProperties
  <2> QED
    BY <1>2, <1>3, <2>1, <2>2, <2>3 DEF row
<1>4. CASE RowOf(u, t) \in DOMAIN links
  <2>1. ~(RowOf(u, t) > Len(links))
    BY <1>2, <1>4
  <2>2. Pending(u, t) = [links EXCEPT ![RowOf(u, t)] = row]
    BY <2>1 DEF Pending, row
  <2>3. [links EXCEPT ![RowOf(u, t)] = row] \in Seq(LinkRow)
    BY <1>1, <1>2, <1>4, ExceptSeq
  <2> QED
    BY <1>2, <1>4, <2>2, <2>3 DEF row
<1> QED
  BY <1>3, <1>4, RowOfClaim

LEMMA ChallengedRows ==
  ASSUME LinksTypeOK, Len(emotes) <= MaxEmotes, NEW l \in Nat
  PROVE  /\ Challenged(l) \in Seq(ChallengeRow)
         /\ DOMAIN challenges \subseteq DOMAIN Challenged(l)
         /\ Len(challenges) <= Len(Challenged(l)) /\ Len(Challenged(l)) \in Nat
         /\ \A i \in DOMAIN challenges : Challenged(l)[i] = challenges[i]
         /\ \A i \in DOMAIN Challenged(l) \ DOMAIN challenges :
              Challenged(l)[i].link = l /\ Challenged(l)[i].progress = 0
<1> DEFINE row == [link |-> l, issued |-> Len(emotes), until |-> None,
                   progress |-> 0, last |-> 0]
<1>1. challenges \in Seq(ChallengeRow) /\ Len(challenges) \in Nat
      /\ DOMAIN challenges = 1 .. Len(challenges)
  BY LinkTables DEF LinksTypeOK
<1>2. row \in ChallengeRow /\ row.link = l /\ row.progress = 0
  BY LinksAssumption, LinkTables DEF ChallengeRow
<1> HIDE DEF row
<1>3. /\ Append(challenges, row) \in Seq(ChallengeRow)
      /\ Len(Append(challenges, row)) = Len(challenges) + 1
      /\ DOMAIN Append(challenges, row) = 1 .. Len(challenges) + 1
      /\ Append(challenges, row)[Len(challenges) + 1] = row
      /\ \A i \in 1 .. Len(challenges) : Append(challenges, row)[i] = challenges[i]
  BY <1>1, <1>2, AppendProperties, LenProperties
<1>4. Challenged(l) \in {challenges, Append(challenges, row)}
  BY DEF Challenged, row
<1> QED
  BY <1>1, <1>2, <1>3, <1>4

LEMMA ClaimWritesStep ==
  ASSUME LinksInv, NEW r \in requests, ClaimWrites(r)
  PROVE  LinksInv'
<1> DEFINE n == RowOf(r.user, r.tag)
<1>1. r.user \in Users /\ r.tag \in Tags
  BY DEF LinksInv, LinksTypeOK, Request
<1>2. /\ users' = users /\ emotes' = emotes /\ verifier' = verifier
      /\ served' = served /\ requests' = requests \ {r}
  BY DEF ClaimWrites, Close
<1>3. n \in Nat
  BY <1>1, RowOfClaim, LinkTables DEF LinksInv
<1>4. CASE ClaimAllowed(r.user, r.tag)
  <2>1. links' = Pending(r.user, r.tag) /\ challenges' = Challenged(n)
    BY <1>4 DEF ClaimWrites
  <2>2. /\ links' \in Seq(LinkRow)
        /\ DOMAIN links' = DOMAIN links \cup {n}
        /\ links'[n] = [user |-> r.user, tag |-> r.tag, status |-> "pending"]
        /\ \A l \in DOMAIN links \ {n} : links'[l] = links[l]
    BY <1>1, <2>1, PendingRows DEF LinksInv
  <2>3. n \in DOMAIN links => links[n].tag = r.tag /\ links[n].user = r.user
    BY <1>1, RowOfClaim, LinkTables DEF LinksInv
  <2>4. /\ challenges' \in Seq(ChallengeRow)
        /\ DOMAIN challenges \subseteq DOMAIN challenges'
        /\ Len(challenges) <= Len(challenges') /\ Len(challenges') \in Nat
        /\ \A i \in DOMAIN challenges : challenges'[i] = challenges[i]
        /\ \A i \in DOMAIN challenges' \ DOMAIN challenges :
             challenges'[i].link = n /\ challenges'[i].progress = 0
    <3>1. LinksTypeOK /\ Len(emotes) <= MaxEmotes
      BY DEF LinksInv, RefsHold
    <3> HIDE DEF n
    <3>2. challenges' = Challenged(n)
      BY <2>1
    <3> QED
      BY <1>3, <3>1, <3>2, ChallengedRows
  <2> HIDE DEF n
  <2>5. LinksTypeOK'
    BY <1>2, <2>2, <2>4, LinkTables DEF LinksInv, LinksTypeOK
  <2>6. RefsHold' /\ BatchStands' /\ VerificationIsEarned'
    <3>1. \A l \in DOMAIN links :
            /\ links'[l].tag = links[l].tag
            /\ links'[l].status = "verified" => links[l].status = "verified"
      BY <2>2, <2>3
    <3> QED
      BY <1>2, <2>2, <2>4, <2>5, <3>1, LinksRewritten
  <2>7. OneHolder'
    <3>1. Verified' \subseteq Verified
      BY <2>2 DEF Verified, WithStatus
    <3>2. \A l \in Verified' : links'[l] = links[l]
      BY <2>2 DEF Verified, WithStatus
    <3>3. \A l, m \in Verified' : links'[l].tag = links'[m].tag => l = m
      BY <3>1, <3>2 DEF LinksInv, NamesAreEarned, OneHolder
    <3>4. \A l \in Active' \ {n} : l \in Active /\ links'[l] = links[l]
      BY <2>2 DEF Active, WithStatus
    <3>5. \A l \in Active' \ {n} : links'[l].user # r.user
      BY <1>4, <3>4 DEF ClaimAllowed, ActiveOf, n
    <3>6. \A l, m \in Active' : links'[l].user = links'[m].user => l = m
      BY <2>2, <3>4, <3>5 DEF LinksInv, NamesAreEarned, OneHolder
    <3> QED
      BY <3>3, <3>6 DEF OneHolder
  <2> QED
    BY <2>5, <2>6, <2>7 DEF LinksInv, NamesAreEarned
<1>5. CASE ~ClaimAllowed(r.user, r.tag)
  <2>1. links' = links /\ challenges' = challenges
    BY <1>5 DEF ClaimWrites
  <2>2. LinksTypeOK'
    BY <1>2, <2>1 DEF LinksInv, LinksTypeOK
  <2>3. RefsHold' /\ BatchStands' /\ VerificationIsEarned'
    BY <1>2, <2>1, <2>2, LinksRewritten
  <2>4. OneHolder'
    BY <2>1 DEF LinksInv, NamesAreEarned, OneHolder, Verified, Active, WithStatus
  <2> QED
    BY <2>2, <2>3, <2>4 DEF LinksInv, NamesAreEarned
<1> QED
  BY <1>4, <1>5

\* A row that loses its holder or its claim opens no place to another.
LEMMA FewerHolders ==
  ASSUME LinksInv, DOMAIN links' = DOMAIN links,
         \A l \in DOMAIN links :
           \/ links'[l] = links[l]
           \/ links'[l].status \in {"cancelled", "gone"}
  PROVE  OneHolder'
<1>1. Verified' \subseteq Verified /\ \A l \in Verified' : links'[l] = links[l]
  BY DEF Verified, WithStatus
<1>2. Active' \subseteq Active /\ \A l \in Active' : links'[l] = links[l]
  BY DEF Active, WithStatus
<1> QED
  BY <1>1, <1>2 DEF LinksInv, NamesAreEarned, OneHolder

LEMMA CancelWritesStep ==
  ASSUME LinksInv, NEW r \in requests, CancelWrites(r)
  PROVE  LinksInv'
<1>1. /\ UNCHANGED <<users, emotes, verifier, challenges, served>>
      /\ requests' = requests \ {r}
  BY DEF CancelWrites, Close
<1>2. r.link \in DOMAIN links
  BY DEF CancelWrites, LinksInv, RefsHold
<1>3. links[r.link] \in LinkRow
  BY <1>2, LinkTables DEF LinksInv
<1> DEFINE row == IF links[r.link].status = "gone" THEN links[r.link]
                  ELSE [links[r.link] EXCEPT !.status = "cancelled"]
<1>4. row \in LinkRow /\ row.tag = links[r.link].tag
      /\ (row = links[r.link] \/ row.status = "cancelled")
  BY <1>3 DEF LinkRow
<1>5. links' = [links EXCEPT ![r.link] = row]
  <2>1. links = [links EXCEPT ![r.link] = links[r.link]]
    <3>1. links \in [1 .. Len(links) -> LinkRow]
      BY LenProperties DEF LinksInv, LinksTypeOK
    <3> QED
      BY <3>1
  <2>2. CASE links[r.link].status = "gone"
    BY <2>1, <2>2 DEF CancelWrites
  <2>3. CASE links[r.link].status # "gone"
    BY <2>3 DEF CancelWrites
  <2> QED
    BY <2>2, <2>3
<1> HIDE DEF row
<1>6. links' \in Seq(LinkRow) /\ DOMAIN links' = DOMAIN links
  BY <1>2, <1>4, <1>5, ExceptSeq, LinkTables DEF LinksInv, LinksTypeOK
<1>7. \A l \in DOMAIN links :
        /\ links'[l].tag = links[l].tag
        /\ links'[l] = links[l] \/ links'[l].status \in {"cancelled", "gone"}
  BY <1>4, <1>5
<1>8. LinksTypeOK'
  BY <1>1, <1>6 DEF LinksInv, LinksTypeOK
<1>9. OneHolder'
  BY <1>6, <1>7, FewerHolders
<1>10. RefsHold' /\ BatchStands' /\ VerificationIsEarned'
  BY <1>1, <1>6, <1>7, <1>8, LinksRewritten
<1> QED
  BY <1>8, <1>9, <1>10 DEF LinksInv, NamesAreEarned

LEMMA AccountGoneStep ==
  ASSUME LinksInv, NEW u \in Users, AccountGone(u)
  PROVE  LinksInv'
<1>1. /\ users' = users \ {u} /\ links' = LinksWithout(u) /\ Serve
      /\ UNCHANGED <<challenges, emotes, verifier, requests>>
  BY DEF AccountGone
<1>2. \A l \in DOMAIN links : links[l] \in LinkRow
  BY LinkTables DEF LinksInv
<1>3. links' \in [1 .. Len(links) -> LinkRow]
  BY <1>1, <1>2, LinkTables DEF LinksInv, LinksWithout, LinkRow
<1>4. links' \in Seq(LinkRow) /\ DOMAIN links' = DOMAIN links
  BY <1>3, LinkSeq, LinkTables DEF LinksInv
<1>5. \A l \in DOMAIN links :
        /\ links'[l].tag = links[l].tag
        /\ links'[l] = links[l] \/ links'[l].status \in {"cancelled", "gone"}
  BY <1>1, <1>2 DEF LinksWithout, LinkRow
<1>6. LinksTypeOK'
  BY <1>1, <1>4, LinksAssumption DEF LinksInv, LinksTypeOK, Serve
<1>7. OneHolder'
  BY <1>4, <1>5, FewerHolders
<1>8. RefsHold' /\ BatchStands' /\ VerificationIsEarned'
  BY <1>1, <1>4, <1>5, <1>6, LinksRewritten
<1> QED
  BY <1>6, <1>7, <1>8 DEF LinksInv, NamesAreEarned

-----------------------------------------------------------------------------
\* The game, and time.

LEMMA HoldersKept ==
  ASSUME LinksInv, links' = links
  PROVE  OneHolder'
  BY DEF LinksInv, NamesAreEarned, OneHolder, Verified, Active, WithStatus

LEMMA PerformStep ==
  ASSUME LinksInv, NEW t \in Tags, Perform(t)
  PROVE  LinksInv'
<1>1. UNCHANGED <<users, links, challenges, verifier, requests, served>>
  BY DEF Perform
<1>2. /\ emotes' \in Seq(Tags) /\ Len(emotes) \in Nat /\ Len(emotes') = Len(emotes) + 1
      /\ \A at \in 1 .. Len(emotes) : emotes'[at] = emotes[at]
  BY AppendProperties, LenProperties DEF Perform, LinksInv, LinksTypeOK
<1>3. LinksTypeOK'
  BY <1>1, <1>2 DEF LinksInv, LinksTypeOK
<1>4. RefsHold'
  BY <1>1, <1>2, LinksAssumption DEF LinksInv, RefsHold, Perform
<1>5. BatchStands'
  BY <1>1, <1>2 DEF LinksInv, BatchStands
<1>6. VerificationIsEarned'
  <2>1. ASSUME NEW i \in DOMAIN challenges PROVE Earned(i)'
    BY <1>1, <1>2, <1>3, StillEarned
  <2> QED
    BY <1>1, <2>1 DEF VerificationIsEarned, Earned, Counted
<1> QED
  BY <1>1, <1>3, <1>4, <1>5, <1>6, HoldersKept DEF LinksInv, NamesAreEarned

LEMMA ExpireStep ==
  ASSUME LinksInv, NEW i \in DOMAIN challenges, Expire(i)
  PROVE  LinksInv'
<1>1. /\ UNCHANGED <<users, links, emotes, verifier, requests, served>>
      /\ challenges' = [challenges EXCEPT ![i].until = Len(emotes)]
      /\ challenges[i].until = None
  BY DEF Expire, IsLive
<1> DEFINE row == [challenges[i] EXCEPT !.until = Len(emotes)]
<1>2. challenges[i] \in ChallengeRow /\ Len(emotes) \in 0 .. MaxEmotes
  BY LinkTables, LinksAssumption DEF LinksInv, RefsHold
<1>3. /\ row \in ChallengeRow /\ row.until = Len(emotes)
      /\ row.link = challenges[i].link /\ row.issued = challenges[i].issued
      /\ row.progress = challenges[i].progress /\ row.last = challenges[i].last
  BY <1>2 DEF ChallengeRow
<1>4. challenges' = [challenges EXCEPT ![i] = row]
  BY <1>1
<1> HIDE DEF row
<1>5. /\ challenges' \in Seq(ChallengeRow) /\ DOMAIN challenges' = DOMAIN challenges
      /\ Len(challenges') = Len(challenges)
      /\ \A j \in DOMAIN challenges :
           challenges'[j] = IF j = i THEN row ELSE challenges[j]
  BY <1>3, <1>4, ExceptSeq, LinkTables DEF LinksInv, LinksTypeOK
<1>6. LinksTypeOK'
  BY <1>1, <1>5 DEF LinksInv, LinksTypeOK
<1>7. RefsHold'
  BY <1>1, <1>3, <1>5 DEF LinksInv, RefsHold
<1>8. BatchStands'
  <2>1. ASSUME verifier.batch # Nothing PROVE verifier.batch.at <= Len(emotes)
    BY <2>1, LinkTables DEF LinksInv, BatchStands
  <2> QED
    BY <1>1, <1>3, <1>5, <2>1 DEF LinksInv, BatchStands
<1>9. VerificationIsEarned'
  <2>1. ASSUME NEW j \in DOMAIN challenges PROVE Earned(j)'
    <3>1. Len(emotes) <= Len(emotes')
      BY <1>1, <1>2
    <3>2. CASE j = i
      BY <1>1, <1>3, <1>5, <1>6, <3>1, <3>2, StillEarned
    <3>3. CASE j # i
      BY <1>1, <1>5, <1>6, <3>1, <3>3, StillEarned
    <3> QED
      BY <3>2, <3>3
  <2> QED
    BY <1>5, <2>1 DEF VerificationIsEarned, Earned, Counted
<1> QED
  BY <1>1, <1>6, <1>7, <1>8, <1>9, HoldersKept DEF LinksInv, NamesAreEarned

-----------------------------------------------------------------------------
\* The verifier.

LEMMA ReadEmoteStep ==
  ASSUME LinksInv, ReadEmote
  PROVE  LinksInv'
<1>1. UNCHANGED <<users, links, challenges, emotes, requests, served>>
  BY DEF ReadEmote
<1> DEFINE at == verifier.cursor + 1
<1>2. at \in 1 .. Len(emotes) /\ verifier.cursor \in 0 .. Len(emotes)
  BY LinkTables DEF LinksInv, LinksTypeOK, ReadEmote
<1>3. PICK hits \in SUBSET {i \in DOMAIN challenges : Awaiting(i, at)} :
        verifier' = [verifier EXCEPT !.batch = [at |-> at, hits |-> hits]]
  BY DEF ReadEmote
<1>4. verifier' = [cursor |-> verifier.cursor, batch |-> [at |-> at, hits |-> hits]]
  BY <1>3 DEF LinksInv, LinksTypeOK
<1>5. hits \subseteq 1 .. Len(challenges)
  BY LinkTables DEF LinksInv
<1> HIDE DEF at
<1>6. LinksTypeOK'
  BY <1>1, <1>2, <1>4, <1>5, LinkTables DEF LinksInv, LinksTypeOK
<1>7. RefsHold'
  BY <1>1 DEF LinksInv, RefsHold
<1>8. BatchStands'
  BY <1>1, <1>2, <1>4 DEF BatchStands, Awaiting
<1>9. NamesAreEarned'
  BY <1>1, HoldersKept DEF LinksInv, NamesAreEarned, VerificationIsEarned
<1> QED
  BY <1>6, <1>7, <1>8, <1>9 DEF LinksInv

LEMMA FoldFailsStep ==
  ASSUME LinksInv, FoldFails
  PROVE  LinksInv'
<1>1. /\ UNCHANGED <<users, links, challenges, emotes, requests, served>>
      /\ verifier' = [cursor |-> verifier.cursor, batch |-> Nothing]
  BY DEF FoldFails, LinksInv, LinksTypeOK
<1>2. LinksTypeOK'
  BY <1>1, LinkTables DEF LinksInv, LinksTypeOK, Nothing
<1>3. RefsHold' /\ BatchStands'
  BY <1>1 DEF LinksInv, RefsHold, BatchStands
<1>4. NamesAreEarned'
  BY <1>1, HoldersKept DEF LinksInv, NamesAreEarned, VerificationIsEarned
<1> QED
  BY <1>2, <1>3, <1>4 DEF LinksInv


\* Who wins, and who loses: links of the emote's player that are not verified.
LEMMA Judgement ==
  ASSUME LinksInv, verifier.batch # Nothing, NEW t, t = emotes[verifier.batch.at]
  PROVE  /\ \A l \in Winning(t) \cup Losing(t) :
              l \in DOMAIN links /\ links[l].tag = t /\ links[l].status # "verified"
         /\ \A l, m \in Winning(t) : l = m
         /\ Winning(t) # {} => VerifiedAs(t) = {}
         /\ Winning(t) \cap Losing(t) = {}
<1> DEFINE done == Found(Done)
<1>1. \A i \in Completing :
        /\ i \in DOMAIN challenges /\ links[challenges[i].link].tag = t
        /\ links[challenges[i].link].status # "verified"
  BY DEF LinksInv, BatchStands, Completing
<1>2. \A l \in done :
        l \in DOMAIN links /\ links[l].tag = t /\ links[l].status # "verified"
  BY <1>1 DEF LinksInv, RefsHold, Found, Done
<1>3. done \in SUBSET Nat
  BY <1>2, LinkTables DEF LinksInv
<1>4. done # {} => Min(done) \in done
  BY <1>3, LeastOfIds
<1>5. /\ Winning(t) = IF done = {} \/ VerifiedAs(t) # {} THEN {} ELSE {Min(done)}
      /\ Losing(t) \subseteq done \cup {l \in WithStatus({"pending"}) : links[l].tag = t}
      /\ Winning(t) \cap Losing(t) = {}
  BY DEF Winning, Losing
<1> HIDE DEF done
<1> QED
  BY <1>2, <1>4, <1>5 DEF WithStatus

LEMMA FoldEmoteStep ==
  ASSUME LinksInv, FoldEmote
  PROVE  LinksInv'
<1> DEFINE at == verifier.batch.at
           t == emotes[at]
           won == Winning(t)
           lost == Losing(t)
<1>1. /\ verifier.batch # Nothing /\ ~Collides(won)
      /\ links' = Judged(t) /\ challenges' = Advanced
      /\ verifier' = [cursor |-> at, batch |-> Nothing]
      /\ UNCHANGED <<users, emotes, requests, served>>
  BY DEF FoldEmote
<1>2. /\ \A l \in won \cup lost :
           l \in DOMAIN links /\ links[l].tag = t /\ links[l].status # "verified"
      /\ \A l, m \in won : l = m
      /\ won # {} => VerifiedAs(t) = {}
      /\ won \cap lost = {}
  BY <1>1, Judgement
<1>3. /\ at \in 1 .. Len(emotes)
      /\ \A i \in verifier.batch.hits :
           /\ i \in DOMAIN challenges /\ links[challenges[i].link].tag = t
           /\ challenges[i].progress < SeqLength /\ challenges[i].issued < at
           /\ challenges[i].until = None \/ at <= challenges[i].until
           /\ challenges[i].last < at
  BY <1>1 DEF LinksInv, BatchStands
<1>4. links' = [l \in DOMAIN links |->
                  CASE l \in won -> [links[l] EXCEPT !.status = "verified"]
                    [] l \in lost -> [links[l] EXCEPT !.status = "cancelled"]
                    [] OTHER -> links[l]]
  BY <1>1 DEF Judged
<1>5. challenges' = [i \in DOMAIN challenges |->
                       IF i \in verifier.batch.hits
                       THEN [challenges[i] EXCEPT !.progress = @ + 1, !.last = at]
                       ELSE challenges[i]]
  BY <1>1 DEF Advanced
<1> HIDE DEF at, t, won, lost
<1>6. \A l \in DOMAIN links : links[l] \in LinkRow
  BY LinkTables DEF LinksInv
<1>7. /\ DOMAIN links' = DOMAIN links
      /\ \A l \in DOMAIN links :
           /\ links'[l] \in LinkRow
           /\ links'[l].tag = links[l].tag /\ links'[l].user = links[l].user
           /\ l \in won => links'[l].status = "verified"
           /\ l \in lost => links'[l].status = "cancelled"
           /\ l \notin won \cup lost => links'[l] = links[l]
  BY <1>2, <1>4, <1>6 DEF LinkRow
<1>8. links' \in Seq(LinkRow)
  <2>1. links' \in [1 .. Len(links) -> LinkRow]
    BY <1>4, <1>7, LinkTables DEF LinksInv
  <2> QED
    BY <2>1, LinkSeq, LinkTables DEF LinksInv
<1>9. at \in 0 .. MaxEmotes /\ Len(emotes) \in Nat
  BY <1>3, LinkTables, LinksAssumption DEF LinksInv, RefsHold
<1>10. /\ DOMAIN challenges' = DOMAIN challenges
       /\ \A i \in DOMAIN challenges :
            /\ challenges'[i] \in ChallengeRow
            /\ challenges'[i].link = challenges[i].link
            /\ challenges'[i].issued = challenges[i].issued
            /\ challenges'[i].until = challenges[i].until
            /\ i \in verifier.batch.hits =>
                 /\ challenges'[i].progress = challenges[i].progress + 1
                 /\ challenges'[i].last = at
            /\ i \notin verifier.batch.hits => challenges'[i] = challenges[i]
  <2>1. \A i \in DOMAIN challenges : challenges[i] \in ChallengeRow
    BY LinkTables DEF LinksInv
  <2>2. ASSUME NEW i \in verifier.batch.hits
        PROVE  [challenges[i] EXCEPT !.progress = @ + 1, !.last = at] \in ChallengeRow
    <3>1. challenges[i] \in ChallengeRow /\ challenges[i].progress < SeqLength
      BY <1>3, <2>1
    <3>2. challenges[i].progress + 1 \in 0 .. SeqLength
      BY <3>1, LinksAssumption DEF ChallengeRow
    <3> QED
      BY <1>9, <3>1, <3>2 DEF ChallengeRow
  <2> QED
    BY <1>5, <2>1, <2>2 DEF ChallengeRow
<1>11. challenges' \in Seq(ChallengeRow) /\ Len(challenges') = Len(challenges)
  <2>1. challenges' \in [1 .. Len(challenges) -> ChallengeRow]
    BY <1>5, <1>10, LinkTables DEF LinksInv
  <2> QED
    BY <2>1, LinkSeq, LinkTables DEF LinksInv
<1>12. LinksTypeOK'
  BY <1>1, <1>3, <1>8, <1>9, <1>11 DEF LinksInv, LinksTypeOK, Nothing, at
<1>13. RefsHold'
  BY <1>1, <1>7, <1>10 DEF LinksInv, RefsHold
<1>14. BatchStands'
  BY <1>1 DEF BatchStands
<1>15. VerificationIsEarned'
  <2>1. ASSUME NEW i \in DOMAIN challenges, i \notin verifier.batch.hits
        PROVE  Earned(i)'
    <3>1. challenges[i].link \in DOMAIN links /\ Len(emotes') = Len(emotes)
          /\ Len(emotes) <= Len(emotes')
      BY <1>1, <1>9 DEF LinksInv, RefsHold
    <3> QED
      BY <1>1, <1>7, <1>10, <1>12, <2>1, <3>1, StillEarned
  <2>2. ASSUME NEW i \in verifier.batch.hits PROVE Earned(i)'
    <3>1. i \in DOMAIN challenges /\ challenges[i] \in ChallengeRow
          /\ challenges[i].link \in DOMAIN links
      BY <1>3, LinkTables DEF LinksInv, RefsHold
    <3>2. at \notin Counted(i)
      BY <1>3, <1>9, <3>1 DEF Counted, ChallengeRow
    <3>3. Counted(i) \cup {at} \subseteq Counted(i)'
      <4>1. at \in Counted(i)'
        BY <1>1, <1>3, <1>7, <1>9, <1>10, <3>1 DEF Counted, t, ChallengeRow
      <4>2. ASSUME NEW x \in Counted(i) PROVE x \in Counted(i)'
        <5>1. x <= challenges[i].last /\ challenges[i].last < at
              /\ x \in 1 .. Len(emotes) /\ challenges[i].last \in 0 .. MaxEmotes
          BY <1>3, <3>1 DEF Counted, ChallengeRow
        <5>2. x <= at
          BY <1>9, <5>1
        <5> QED
          BY <1>1, <1>3, <1>7, <1>10, <3>1, <5>2 DEF Counted
      <4> QED
        BY <4>1, <4>2
    <3>4. /\ Counted(i) \in SUBSET (1 .. Len(emotes))
          /\ Counted(i)' \in SUBSET (1 .. Len(emotes))
      BY <1>1 DEF Counted
    <3>5. /\ IsFiniteSet(Counted(i)) /\ Cardinality(Counted(i)) \in Nat
          /\ IsFiniteSet(Counted(i)') /\ Cardinality(Counted(i)') \in Nat
      BY <1>9, <3>4, CountedFinite
    <3>6. Cardinality(Counted(i) \cup {at}) = Cardinality(Counted(i)) + 1
      BY <3>2, <3>5, FS_AddElement
    <3>7. Cardinality(Counted(i) \cup {at}) <= Cardinality(Counted(i)')
      BY <3>3, <3>5, FS_Subset
    <3>8. challenges[i].progress <= Cardinality(Counted(i))
      BY <3>1, EarnedEach DEF LinksInv, NamesAreEarned, Earned
    <3>9. challenges[i].progress \in Nat
      BY <3>1 DEF ChallengeRow
    <3> QED
      BY <1>10, <2>2, <3>1, <3>5, <3>6, <3>7, <3>8, <3>9 DEF Earned
  <2> QED
    BY <1>10, <2>1, <2>2 DEF VerificationIsEarned, Earned, Counted
<1>16. OneHolder'
  <2>1. \A l \in Verified' : l \in won \/ l \in Verified
    BY <1>7 DEF Verified, WithStatus
  <2>2. \A l \in Active' : l \in won \/ l \in Active
    BY <1>7 DEF Active, WithStatus
  <2>3. \A l \in won, m \in Verified : links[m].tag # links[l].tag
    BY <1>2 DEF VerifiedAs
  <2>4. \A l \in won, m \in Active : links[m].user = links[l].user => m = l
    BY <1>1, <1>2 DEF Collides, ActiveOf
  <2>5. Verified' \subseteq DOMAIN links /\ Active' \subseteq DOMAIN links
    BY <1>7 DEF Verified, Active, WithStatus
  <2>6. \A l, m \in Verified' : links'[l].tag = links'[m].tag => l = m
    BY <1>2, <1>7, <2>1, <2>3, <2>5 DEF LinksInv, NamesAreEarned, OneHolder
  <2>7. \A l, m \in Active' : links'[l].user = links'[m].user => l = m
    BY <1>2, <1>7, <2>2, <2>4, <2>5 DEF LinksInv, NamesAreEarned, OneHolder
  <2> QED
    BY <2>6, <2>7 DEF OneHolder
<1> QED
  BY <1>12, <1>13, <1>14, <1>15, <1>16 DEF LinksInv, NamesAreEarned

-----------------------------------------------------------------------------
\* Every step of the links, whoever takes it.

LEMMA LinksStep ==
  ASSUME LinksInv,
         \/ LinkRequest \/ Passing \/ FoldEmote
         \/ \E u \in Users : AccountGone(u)
         \/ UNCHANGED <<linkVars, served>>
         \/ Serve /\ UNCHANGED linkVars
  PROVE  LinksInv'
<1>1. CASE LinkRequest
  BY <1>1, ClaimReadsStep, CancelReadsStep, ClaimWritesStep, CancelWritesStep
     DEF LinkRequest
<1>2. CASE Passing
  BY <1>2, PerformStep, ExpireStep, ReadEmoteStep, FoldFailsStep DEF Passing
<1>3. CASE FoldEmote
  BY <1>3, FoldEmoteStep
<1>4. CASE \E u \in Users : AccountGone(u)
  BY <1>4, AccountGoneStep
<1>5. ASSUME UNCHANGED linkVars, served' \in 0 .. MaxRequests PROVE LinksInv'
  <2>1. UNCHANGED <<users, links, challenges, emotes, verifier, requests>>
    BY <1>5 DEF linkVars
  <2>2. LinksTypeOK'
    BY <1>5, <2>1 DEF LinksInv, LinksTypeOK
  <2>3. RefsHold' /\ BatchStands' /\ VerificationIsEarned'
    BY <2>1 DEF LinksInv, NamesAreEarned, RefsHold, BatchStands, VerificationIsEarned
  <2> QED
    BY <2>1, <2>2, <2>3, HoldersKept DEF LinksInv, NamesAreEarned
<1>6. served \in 0 .. MaxRequests
  BY DEF LinksInv, LinksTypeOK
<1>7. CASE UNCHANGED <<linkVars, served>>
  BY <1>5, <1>6, <1>7
<1>8. CASE Serve /\ UNCHANGED linkVars
  BY <1>5, <1>6, <1>8, LinksAssumption DEF Serve
<1> QED
  BY <1>1, <1>2, <1>3, <1>4, <1>7, <1>8

\* What may happen to a verified link, whoever takes the step.
LinkStays ==
  \A l \in DOMAIN links : l \in Verified =>
    \/ links'[l].status = "verified"
    \/ links'[l].status = "gone" /\ links[l].user \notin users'
    \/ \E r \in requests \ requests' : l \notin r.saw

LEMMA VerifiedStep ==
  ASSUME LinksInv,
         \/ LinkRequest \/ Passing \/ FoldEmote
         \/ \E u \in Users : AccountGone(u)
         \/ UNCHANGED links
  PROVE  LinkStays
<1>1. \A l \in Verified : l \in DOMAIN links /\ links[l].status = "verified"
                          /\ links[l] \in LinkRow
  BY LinkTables DEF Verified, WithStatus, LinksInv
<1>2. CASE UNCHANGED links
  BY <1>1, <1>2 DEF LinkStays
<1>3. ASSUME NEW u \in Users, NEW t \in Tags, ClaimReads(u, t) PROVE UNCHANGED links
  BY <1>3 DEF ClaimReads
<1>4. ASSUME NEW l \in DOMAIN links, CancelReads(l) PROVE UNCHANGED links
  BY <1>4 DEF CancelReads
<1>5. ASSUME NEW r \in requests, ClaimWrites(r) PROVE LinkStays
  <2> DEFINE n == RowOf(r.user, r.tag)
  <2>1. r \in Request /\ r.kind = "claim" /\ requests' = requests \ {r}
        /\ r.user \in Users /\ r.tag \in Tags
    BY <1>5 DEF ClaimWrites, Close, LinksInv, LinksTypeOK, Request
  <2>2. CASE links' = Pending(r.user, r.tag)
    <3>1. \A l \in DOMAIN links \ {n} : links'[l] = links[l]
      BY <2>1, <2>2, PendingRows DEF LinksInv
    <3>2. n \in DOMAIN links => links[n].tag = r.tag
      BY <2>1, RowOfClaim, LinkTables DEF LinksInv
    <3>3. n \in DOMAIN links => n \notin r.saw
      BY <2>1, <3>2 DEF LinksInv, RefsHold
    <3> QED
      BY <1>1, <2>1, <3>1, <3>3 DEF LinkStays
  <2>3. CASE UNCHANGED links
    BY <1>2, <2>3
  <2> QED
    BY <1>5, <2>2, <2>3 DEF ClaimWrites
<1>6. ASSUME NEW r \in requests, CancelWrites(r) PROVE LinkStays
  <2>1. r.link \in DOMAIN links \ r.saw /\ requests' = requests \ {r}
    BY <1>6 DEF CancelWrites, Close, LinksInv, RefsHold
  <2>2. \A l \in DOMAIN links \ {r.link} : links'[l] = links[l]
    BY <1>6 DEF CancelWrites
  <2> QED
    BY <1>1, <2>1, <2>2 DEF LinkStays
<1>7. ASSUME Passing PROVE UNCHANGED links
  BY <1>7 DEF Passing, Perform, Expire, ReadEmote, FoldFails
<1>8. ASSUME FoldEmote PROVE LinkStays
  <2> DEFINE t == emotes[verifier.batch.at]
  <2>1. /\ verifier.batch # Nothing /\ links' = Judged(t)
    BY <1>8 DEF FoldEmote
  <2>2. \A l \in Winning(t) \cup Losing(t) : links[l].status # "verified"
    BY <2>1, Judgement
  <2>3. \A l \in Verified : links'[l] = links[l]
    BY <1>1, <2>1, <2>2 DEF Judged
  <2> QED
    BY <1>1, <2>3 DEF LinkStays
<1>9. ASSUME NEW u \in Users, AccountGone(u) PROVE LinkStays
  <2>1. links' = LinksWithout(u) /\ users' = users \ {u}
    BY <1>9 DEF AccountGone
  <2>2. \A l \in Verified :
          IF links[l].user = u THEN links'[l].status = "gone" ELSE links'[l] = links[l]
    BY <1>1, <2>1 DEF LinksWithout, LinkRow
  <2> QED
    BY <1>1, <2>1, <2>2 DEF LinkStays
<1> QED
  BY <1>2, <1>3, <1>4, <1>5, <1>6, <1>7, <1>8, <1>9 DEF LinkRequest

=============================================================================
