-------------------------- MODULE SocialLayer_proofs -------------------------
(***************************************************************************)
(* Theorems about SocialLayer, for every set of users, gamertags, servers  *)
(* and images and every bound, and about the photo dialog and the tag      *)
(* field, which show it to its people (all in MCSocialLayer).              *)
(***************************************************************************)
EXTENDS MCSocialLayer, GamertagLinks_proofs, WellFoundedInduction

\* Nobody is about to share with himself, and whoever shares across a block, or
\* is about to, is known to have raced it.
SharesRaced ==
  /\ \A q \in granting : q.granter # q.grantee
  /\ \A p \in shares \cup granting :
       Blocked(p.granter, p.grantee) => {p.granter, p.grantee} \in raced

\* A report goes on to ban only what no moderator had restored when it looked,
\* and a picture is fetched only for a user who had none.
WorkUnderWay ==
  /\ \A r \in reports : r.saw # "allowed"
  /\ \A p \in populating : p.had = "none"

SharingInv == SharingTypeOK /\ SharesRaced
AvatarsInv == AvatarsTypeOK /\ WorkUnderWay
SocialInv == LinksInv /\ SharingInv /\ AvatarsInv

LEMMA SocialInitInv == Init => SocialInv
<1> SUFFICES ASSUME Init PROVE SocialInv
  OBVIOUS
<1>1. LinksInv
  BY LinksInitInv DEF Init
<1>2. SharingInv
  BY SharingAssumption DEF Init, SharingInit, SharingInv, SharingTypeOK, SharesRaced
<1>3. AvatarsInv
  BY AvatarsAssumption
     DEF Init, AvatarsInit, AvatarsInv, AvatarsTypeOK, WorkUnderWay, Verdicts
<1> QED
  BY <1>1, <1>2, <1>3 DEF SocialInv

-----------------------------------------------------------------------------
\* Location sharing.

LEMMA LinkHolders ==
  ASSUME LinksInv
  PROVE  /\ \A t \in Tags : HolderOf(t) \subseteq Users
         /\ \A u \in Users : TagOf(u) \subseteq Tags
<1>1. \A l \in Verified : links[l].user \in Users /\ links[l].tag \in Tags
  BY LinkTables DEF LinksInv, LinkRow, Verified, WithStatus
<1> QED
  BY <1>1 DEF HolderOf, TagOf, VerifiedAs

\* Fewer shares, blocks and notifications.
LEMMA SharingShrinks ==
  ASSUME SharingInv, users' \subseteq users, UNCHANGED <<sessions, connects, raced>>,
         blocking' \subseteq blocking,
         shares' \subseteq shares, blocks' \subseteq blocks, told' \subseteq told,
         granting' \subseteq granting,
         \A a \in shares' : {a.granter, a.grantee} \subseteq users'
  PROVE  SharingInv'
<1>1. SharingTypeOK'
  BY DEF SharingInv, SharingTypeOK
<1>2. SharesRaced'
  <2>1. \A p : Blocked(p.granter, p.grantee)' => Blocked(p.granter, p.grantee)
    BY DEF Blocked
  <2> QED
    BY <2>1 DEF SharingInv, SharesRaced
<1> QED
  BY <1>1, <1>2 DEF SharingInv

LEMMA ConnectStep ==
  ASSUME SharingInv, NEW t \in Tags, NEW s \in GameServers, Connect(t, s) \/ Disconnect(t, s)
  PROVE  SharingInv'
<1>1. UNCHANGED <<users, shares, blocks, granting, blocking, told, raced>>
  BY DEF Connect, Disconnect, linkVars
<1>2. PICK at \in 0 .. connects' :
        /\ connects' \in 0 .. MaxConnects /\ connects <= connects'
        /\ sessions' = [sessions EXCEPT ![<<t, s>>] = at]
  BY SharingAssumption DEF Connect, Disconnect, SharingInv, SharingTypeOK
<1>3. sessions' \in [Tags \X GameServers -> 0 .. connects']
  <2>1. \A p \in Tags \X GameServers : sessions[p] \in 0 .. connects'
    BY <1>2, SharingAssumption DEF SharingInv, SharingTypeOK
  <2> QED
    BY <1>2, <2>1 DEF SharingInv, SharingTypeOK
<1>4. SharingTypeOK'
  BY <1>1, <1>2, <1>3 DEF SharingInv, SharingTypeOK
<1>5. SharesRaced'
  BY <1>1 DEF SharingInv, SharesRaced, Blocked
<1> QED
  BY <1>4, <1>5 DEF SharingInv

LEMMA ShareReadsStep ==
  ASSUME LinksInv, SharingInv, NEW u \in Users, NEW t \in Tags, NEW s \in GameServers,
         ShareReads(u, t, s)
  PROVE  SharingInv'
<1>1. UNCHANGED <<users, sessions, connects, shares, blocks, blocking, told, raced>>
  BY DEF ShareReads, linkVars
<1>2. PICK mine \in TagOf(u), v \in HolderOf(t) \ {u} :
        /\ ~Blocked(u, v)
        /\ granting' = granting \cup
             {[granter |-> u, tag |-> mine, grantee |-> v, server |-> s]}
  BY DEF ShareReads
<1>3. mine \in Tags /\ v \in Users
  BY LinkHolders
<1>4. SharingTypeOK'
  BY <1>1, <1>2, <1>3 DEF SharingInv, SharingTypeOK, Granting
<1>5. SharesRaced'
  BY <1>1, <1>2 DEF SharingInv, SharesRaced, Blocked
<1> QED
  BY <1>4, <1>5 DEF SharingInv

LEMMA ShareWritesStep ==
  ASSUME SharingInv, NEW q \in granting, ShareWrites(q)
  PROVE  SharingInv'
<1>1. /\ UNCHANGED <<users, sessions, connects, blocks, blocking, raced>>
      /\ granting' = granting \ {q}
  BY DEF ShareWrites, linkVars
<1>2. CASE UNCHANGED <<shares, told>>
  BY <1>1, <1>2, SharingShrinks DEF SharingInv, SharingTypeOK
<1>3. CASE /\ sessions[<<q.tag, q.server>>] # 0 /\ {q.granter, q.grantee} \subseteq users
           /\ shares' = Granted(q)
           /\ told' = told \cup {[to |-> q.grantee, tag |-> q.tag,
                                  start |-> sessions[<<q.tag, q.server>>]]}
  <2> DEFINE at == sessions[<<q.tag, q.server>>]
             new == [granter |-> q.granter, grantee |-> q.grantee,
                     server |-> q.server, start |-> at]
  <2>1. q \in Granting /\ q.granter # q.grantee
    BY DEF SharingInv, SharingTypeOK, SharesRaced
  <2>2. at \in 1 .. MaxConnects
    <3>1. connects \in 0 .. MaxConnects /\ sessions \in [Tags \X GameServers -> 0 .. connects]
      BY DEF SharingInv, SharingTypeOK
    <3>2. <<q.tag, q.server>> \in Tags \X GameServers
      BY <2>1 DEF Granting
    <3>3. at \in 0 .. connects /\ at # 0
      BY <1>3, <3>1, <3>2
    <3> QED
      BY <3>1, <3>3, SharingAssumption
  <2>3. new \in Share
    BY <2>1, <2>2 DEF Granting, Share
  <2>4. shares' = {a \in shares : <<a.granter, a.grantee, a.server>>
                                    # <<q.granter, q.grantee, q.server>>} \cup {new}
    BY <1>3 DEF Granted
  <2>5. told' \subseteq Told
    BY <1>3, <2>1, <2>2 DEF SharingInv, SharingTypeOK, Told, Granting
  <2> HIDE DEF at
  <2>6. SharingTypeOK'
    BY <1>1, <1>3, <2>1, <2>3, <2>4, <2>5 DEF SharingInv, SharingTypeOK
  <2>7. SharesRaced'
    BY <1>1, <2>4 DEF SharingInv, SharesRaced, Blocked
  <2> QED
    BY <2>6, <2>7 DEF SharingInv
<1> QED
  BY <1>2, <1>3 DEF ShareWrites

LEMMA BlockReadsStep ==
  ASSUME LinksInv, SharingInv, NEW u \in Users, NEW t \in Tags, BlockReads(u, t)
  PROVE  SharingInv'
<1>1. UNCHANGED <<users, sessions, connects, shares, blocks, granting, told, raced>>
  BY DEF BlockReads, linkVars
<1>2. PICK v \in HolderOf(t) \ {u} : blocking' = blocking \cup {[by |-> u, of |-> v, tag |-> t]}
  BY DEF BlockReads
<1>3. v \in Users
  BY LinkHolders
<1>4. SharingTypeOK'
  BY <1>1, <1>2, <1>3 DEF SharingInv, SharingTypeOK, BlockRow
<1>5. SharesRaced'
  BY <1>1 DEF SharingInv, SharesRaced, Blocked
<1> QED
  BY <1>4, <1>5 DEF SharingInv

LEMMA BlockWritesStep ==
  ASSUME SharingInv, NEW new \in blocking, BlockWrites(new)
  PROVE  SharingInv'
<1> DEFINE u == new.by
           v == new.of
<1>1. UNCHANGED <<users, sessions, connects, granting, told>> /\ blocking' \subseteq blocking
  BY DEF BlockWrites, linkVars
<1>2. CASE UNCHANGED <<blocks, shares, raced>>
  BY <1>1, <1>2, SharingShrinks DEF SharingInv, SharingTypeOK
<1>3. CASE /\ blocks' = {b \in blocks : b.by # u \/ b.of # v} \cup {new}
           /\ shares' = Unshared(u, v)
           /\ raced' = IF \E q \in granting : {q.granter, q.grantee} = {u, v}
                       THEN raced \cup {{u, v}} ELSE raced \ {{u, v}}
  <2>1. new \in BlockRow /\ u \in Users /\ v \in Users
    BY DEF SharingInv, SharingTypeOK, BlockRow
  <2>2. SharingTypeOK'
    <3>1. blocks' \subseteq BlockRow /\ \A a, b \in blocks' : a.by = b.by /\ a.of = b.of => a = b
      BY <1>3, <2>1 DEF SharingInv, SharingTypeOK
    <3>2. shares' \subseteq shares /\ raced' \subseteq SUBSET Users
      BY <1>3, <2>1 DEF SharingInv, SharingTypeOK, Unshared
    <3> QED
      BY <1>1, <3>1, <3>2 DEF SharingInv, SharingTypeOK
  <2>3. SharesRaced'
    <3>1. ASSUME NEW p \in shares' \cup granting', Blocked(p.granter, p.grantee)'
          PROVE  {p.granter, p.grantee} \in raced'
      <4>1. CASE {p.granter, p.grantee} = {u, v}
        <5>1. p \in granting
          BY <1>1, <1>3, <4>1 DEF Unshared
        <5> QED
          BY <1>3, <4>1, <5>1
      <4>2. CASE {p.granter, p.grantee} # {u, v}
        <5>1. PICK b \in blocks' : {b.by, b.of} = {p.granter, p.grantee}
          BY <3>1 DEF Blocked
        <5>2. b \in blocks
          BY <1>3, <4>2, <5>1
        <5>3. {p.granter, p.grantee} \in raced
          BY <1>1, <1>3, <5>1, <5>2 DEF SharingInv, SharesRaced, Blocked, Unshared
        <5> QED
          BY <1>3, <4>2, <5>3
      <4> QED
        BY <4>1, <4>2
    <3> QED
      BY <1>1, <3>1 DEF SharingInv, SharesRaced
  <2> QED
    BY <2>2, <2>3 DEF SharingInv
<1> QED
  BY <1>2, <1>3 DEF BlockWrites

LEMMA SharingStep ==
  ASSUME LinksInv, SharingInv, SharingRequest
  PROVE  SharingInv'
<1>1. ASSUME NEW u \in Users, NEW t \in Tags, NEW s \in GameServers,
             RevokeAll(u, s) \/ Revoke(u, t, s) \/ Unblock(u, t)
      PROVE  SharingInv'
  <2>1. /\ UNCHANGED <<users, sessions, connects, granting, blocking, told, raced>>
        /\ shares' \subseteq shares /\ blocks' \subseteq blocks
    BY <1>1 DEF RevokeAll, Revoke, Unblock, linkVars
  <2> QED
    BY <2>1, SharingShrinks DEF SharingInv, SharingTypeOK
<1>2. ASSUME NEW u \in Users, NEW s \in GameServers, RevokeAll(u, s)
      PROVE  SharingInv'
  <2>1. /\ UNCHANGED <<users, sessions, connects, granting, blocking, told, raced, blocks>>
        /\ shares' \subseteq shares
    BY <1>2 DEF RevokeAll, linkVars
  <2> QED
    BY <2>1, SharingShrinks DEF SharingInv, SharingTypeOK
<1>3. ASSUME NEW u \in Users, NEW t \in Tags, Unblock(u, t)
      PROVE  SharingInv'
  <2>1. /\ UNCHANGED <<users, sessions, connects, granting, blocking, told, raced, shares>>
        /\ blocks' \subseteq blocks
    BY <1>3 DEF Unblock, linkVars
  <2> QED
    BY <2>1, SharingShrinks DEF SharingInv, SharingTypeOK
<1> QED
  BY <1>1, <1>2, <1>3, ShareReadsStep, BlockReadsStep, BlockWritesStep, ShareWritesStep,
     ConnectStep
     DEF SharingRequest

-----------------------------------------------------------------------------
\* Avatars.

LEMMA AvatarStep ==
  ASSUME AvatarsInv, AvatarRequest
  PROVE  AvatarsInv'
<1> USE AvatarsAssumption DEF AvatarsInv, AvatarsTypeOK, WorkUnderWay
<1>1. ASSUME NEW u \in Users, Remove(u) PROVE AvatarsInv'
  BY <1>1 DEF Remove
<1>2. ASSUME NEW u \in Users, SignIn(u) PROVE AvatarsInv'
  BY <1>2 DEF SignIn, MayPopulate, Populating
<1>3. ASSUME NEW u \in Users, NEW h \in Hashes, Upload(u, h) PROVE AvatarsInv'
  BY <1>3 DEF Upload
<1>4. ASSUME NEW u \in Users, NEW h \in Hashes, ReportReads(u, h) PROVE AvatarsInv'
  <2>1. reports' = reports \cup {[by |-> u, hash |-> h, saw |-> None]}
    BY <1>4 DEF ReportReads
  <2>2. None # "allowed"
    BY AvatarsAssumption DEF Verdicts
  <2> QED
    BY <1>4, <2>1, <2>2 DEF ReportReads, Report
<1>5. ASSUME NEW p \in populating, PopulateFails(p) PROVE AvatarsInv'
  BY <1>5 DEF PopulateFails
<1>6. ASSUME NEW p \in populating, NEW h \in Hashes, Populate(p, h) PROVE AvatarsInv'
  BY <1>6 DEF Populate
<1>7. ASSUME NEW r \in reports, ReportChecks(r) PROVE AvatarsInv'
  <2>1. r \in Report
    OBVIOUS
  <2>2. CASE reports' = reports \ {r}
    BY <1>7, <2>1, <2>2 DEF ReportChecks, Report
  <2>3. CASE /\ ~Reviewed(r.hash)
             /\ reports' = (reports \ {r}) \cup {[r EXCEPT !.saw = verdicts[r.hash]]}
             /\ UNCHANGED reported
    BY <1>7, <2>1, <2>3 DEF ReportChecks, Report, Reviewed
  <2> QED
    BY <1>7, <2>2, <2>3 DEF ReportChecks
<1>8. ASSUME NEW r \in reports, ReportBans(r) PROVE AvatarsInv'
  <2>1. r.by \in Users /\ r.hash \in Hashes
    BY DEF Report
  <2>2. verdicts' \in [Hashes -> Verdicts]
    BY <1>8, <2>1 DEF ReportBans, Banned, Verdicts
  <2> QED
    BY <1>8, <2>1, <2>2 DEF ReportBans
<1>9. ASSUME NEW h \in Hashes, Restore(h) \/ Confirm(h) PROVE AvatarsInv'
  BY <1>9 DEF Restore, Confirm, Verdicts
<1> QED
  BY <1>1, <1>2, <1>3, <1>4, <1>5, <1>6, <1>7, <1>8, <1>9 DEF AvatarRequest

-----------------------------------------------------------------------------
\* The whole.

LEMMA SameSharing ==
  ASSUME SharingInv, UNCHANGED <<sharingVars, users>>
  PROVE  SharingInv'
<1>1. SharingTypeOK' /\ SharesRaced'
  BY DEF SharingInv, SharingTypeOK, SharesRaced, Blocked, sharingVars
<1> QED
  BY <1>1 DEF SharingInv

LEMMA SameAvatars ==
  ASSUME AvatarsInv, UNCHANGED avatarVars
  PROVE  AvatarsInv'
  BY DEF AvatarsInv, AvatarsTypeOK, WorkUnderWay, avatarVars

LEMMA DeleteAccountStep ==
  ASSUME SocialInv, NEW u \in Users, DeleteAccount(u)
  PROVE  SocialInv'
<1>1. users' = users \ {u} /\ ForgetSharing(u) /\ ForgetAvatar(u)
  BY DEF DeleteAccount, AccountGone
<1>2. LinksInv'
  BY AccountGoneStep DEF SocialInv, DeleteAccount
<1>3. SharingInv'
  <2>1. /\ UNCHANGED <<sessions, connects, granting, blocking, raced>>
        /\ shares' = {a \in shares : u \notin {a.granter, a.grantee}}
        /\ blocks' \subseteq blocks /\ told' \subseteq told
    BY <1>1 DEF ForgetSharing
  <2>2. \A a \in shares' : {a.granter, a.grantee} \subseteq users'
    BY <1>1, <2>1 DEF SocialInv, SharingInv, SharingTypeOK
  <2> QED
    BY <1>1, <2>1, <2>2, SharingShrinks DEF SocialInv
<1>4. AvatarsInv'
  BY <1>1 DEF SocialInv, AvatarsInv, AvatarsTypeOK, WorkUnderWay, ForgetAvatar
<1> QED
  BY <1>2, <1>3, <1>4 DEF SocialInv

\* What each part's steps are to the links.
LEMMA LinkSteps ==
  ASSUME [Next]_vars
  PROVE  \/ LinkRequest \/ Passing \/ FoldEmote
         \/ \E u \in Users : AccountGone(u)
         \/ UNCHANGED <<linkVars, served>>
         \/ Serve /\ UNCHANGED linkVars
<1>1. ASSUME SharingRequest
      PROVE  UNCHANGED <<linkVars, served>> \/ (Serve /\ UNCHANGED linkVars)
  BY <1>1 DEF SharingRequest, RevokeAll, Revoke, ShareReads, BlockReads, BlockWrites, Unblock, ShareWrites,
              Connect, Disconnect
<1>2. ASSUME AvatarRequest
      PROVE  UNCHANGED <<linkVars, served>> \/ (Serve /\ UNCHANGED linkVars)
  BY <1>2 DEF AvatarRequest, Remove, SignIn, Upload, ReportReads, PopulateFails, Populate,
              ReportChecks, ReportBans, Restore, Confirm
<1> QED
  BY <1>1, <1>2 DEF Next, vars, FoldEmoteAndUnshare, DeleteAccount

LEMMA SocialStep == SocialInv /\ [Next]_vars => SocialInv'
<1> SUFFICES ASSUME SocialInv, [Next]_vars PROVE SocialInv'
  OBVIOUS
<1>1. LinksInv'
  BY LinkSteps, LinksStep DEF SocialInv
<1>2. CASE (LinkRequest \/ Passing) /\ UNCHANGED <<sharingVars, avatarVars>>
  <2>1. users' = users
    BY <1>2 DEF LinkRequest, Passing, ClaimReads, CancelReads, ClaimWrites, CancelWrites,
                Perform, Expire, ReadEmote, FoldFails
  <2> QED
    BY <1>1, <1>2, <2>1, SameSharing, SameAvatars DEF SocialInv
<1>3. CASE FoldEmoteAndUnshare /\ UNCHANGED avatarVars
  <2>1. /\ UNCHANGED <<users, sessions, connects, blocks, granting, blocking, told, raced>>
        /\ shares' \subseteq shares
    BY <1>3 DEF FoldEmoteAndUnshare, FoldEmote
  <2>2. SharingInv'
    BY <2>1, SharingShrinks DEF SocialInv, SharingInv, SharingTypeOK
  <2> QED
    BY <1>1, <1>3, <2>2, SameAvatars DEF SocialInv
<1>4. CASE SharingRequest /\ UNCHANGED avatarVars
  BY <1>1, <1>4, SharingStep, SameAvatars DEF SocialInv
<1>5. CASE AvatarRequest /\ UNCHANGED sharingVars
  <2>1. users' = users
    BY <1>5 DEF AvatarRequest, Remove, SignIn, Upload, ReportReads, PopulateFails,
                Populate, ReportChecks, ReportBans, Restore, Confirm, linkVars
  <2> QED
    BY <1>1, <1>5, <2>1, AvatarStep, SameSharing DEF SocialInv
<1>6. CASE \E u \in Users : DeleteAccount(u)
  BY <1>6, DeleteAccountStep
<1>7. CASE UNCHANGED vars
  BY <1>1, <1>7, SameSharing, SameAvatars DEF SocialInv, vars, linkVars
<1> QED
  BY <1>2, <1>3, <1>4, <1>5, <1>6, <1>7 DEF Next

\* The inductive invariant of the routes, the verifier and the moderators.
THEOREM SocialInvariant == Spec => []SocialInv
<1>1. Init => SocialInv
  BY SocialInitInv
<1>2. SocialInv /\ [Next]_vars => SocialInv'
  BY SocialStep
<1> QED
  BY <1>1, <1>2, PTL DEF Spec

\* Every state has the types the tables have: a share once per pair and server,
\* between two users that exist, a block once per pair.
THEOREM SocialTypeCorrect == Spec => []TypeOK
<1>1. SocialInv => TypeOK
  BY DEF SocialInv, LinksInv, SharingInv, AvatarsInv, TypeOK
<1> QED
  BY <1>1, SocialInvariant, PTL

\* A gamertag has one holder at most, who performed its challenge, and keeps it
\* until the account goes or a request that had read before overwrites it.
THEOREM NamesKept == Spec => NamesAreKept
<1>1. SocialInv => NamesAreEarned
  BY DEF SocialInv, LinksInv
<1>2. SocialInv /\ [Next]_vars => [LinkStays]_linkVars
  <2> SUFFICES ASSUME SocialInv, [Next]_vars PROVE [LinkStays]_linkVars
    OBVIOUS
  <2>1. LinksInv
    BY DEF SocialInv
  <2> QED
    BY <2>1, LinkSteps, VerifiedStep DEF linkVars
<1>3. Spec => [][LinkStays]_linkVars
  BY <1>2, SocialInvariant, PTL DEF Spec
<1>4. Spec => VerifiedStays
  BY <1>3 DEF VerifiedStays, LinkStays
<1> QED
  BY <1>1, <1>4, SocialInvariant, PTL DEF NamesAreKept

LEMMA SocialIsThen == SocialInv => SeenAsAgreed
<1> SUFFICES ASSUME SocialInv, NEW g \in Users, NEW v \in Users, NEW s \in GameServers,
                    SeesDot(v, g, s)
             PROVE  TagOf(v) \subseteq Chip(g, s) /\ (Blocked(g, v) => {g, v} \in raced)
  BY DEF SeenAsAgreed
<1>1. PICK a \in shares : /\ a.granter = g /\ a.grantee = v /\ a.server = s
                          /\ \E t \in TagOf(g) : sessions[<<t, s>>] = a.start
  BY DEF SeesDot
<1>2. TagOf(v) \subseteq Chip(g, s)
  BY <1>1 DEF Chip
<1>3. Blocked(g, v) => {g, v} \in raced
  BY <1>1 DEF SocialInv, SharingInv, SharesRaced
<1> QED
  BY <1>2, <1>3

\* Whoever sees a user's dot is named in that user's chip, and no block lies
\* between the two that was not raced by the share.
THEOREM SharesAgreed == Spec => []SeenAsAgreed
  BY SocialIsThen, SocialInvariant, PTL

-----------------------------------------------------------------------------
\* Verdicts.

\* Only a report's commit, a sign-in's picture and requests touch the avatars;
\* an account that goes takes its own along.
LEMMA AvatarActs ==
  ASSUME SocialInv, [Next]_vars
  PROVE  \/ UNCHANGED avatarVars
         \/ \E u \in Users : Remove(u) \/ SignIn(u)
         \/ \E u \in Users, h \in Hashes : Upload(u, h) \/ ReportReads(u, h)
         \/ \E p \in populating : PopulateFails(p) \/ \E h \in Hashes : Populate(p, h)
         \/ \E r \in reports : ReportChecks(r) \/ ReportBans(r)
         \/ \E h \in Hashes : Restore(h) \/ Confirm(h)
         \/ \E u \in Users : ForgetAvatar(u)
  BY DEF Next, AvatarRequest, DeleteAccount, vars, avatarVars

LEMMA HumanStep ==
  ASSUME SocialInv, [Next]_vars, NEW h \in Hashes,
         verdicts[h] \in {"allowed", "confirmed"}
  PROVE  verdicts'[h] = verdicts[h] \/ served' = served + 1
<1>1. verdicts \in [Hashes -> Verdicts]
  BY DEF SocialInv, AvatarsInv, AvatarsTypeOK
<1>2. ASSUME NEW r \in reports, ReportBans(r) PROVE verdicts'[h] = verdicts[h]
  BY <1>1, <1>2 DEF ReportBans, Banned
<1>3. ASSUME NEW g \in Hashes, Restore(g) \/ Confirm(g) PROVE served' = served + 1
  BY <1>3 DEF Restore, Confirm, Serve
<1> QED
  BY <1>2, <1>3, AvatarActs
     DEF avatarVars, Remove, SignIn, Upload, ReportReads, PopulateFails, Populate,
         ReportChecks, ForgetAvatar

LEMMA OkStep ==
  ASSUME SocialInv, [Next]_vars, NEW r \in reports \ reports', r.saw # None
  PROVE  \/ ~NotBanned(r.hash)'
         \/ r.saw # "allowed" /\ verdicts[r.hash] = "allowed"
<1>1. /\ verdicts \in [Hashes -> Verdicts] /\ r.hash \in Hashes
      /\ r.saw # "allowed"
  BY DEF SocialInv, AvatarsInv, AvatarsTypeOK, Report, WorkUnderWay
<1>2. ASSUME NEW q \in reports, ReportChecks(q) PROVE FALSE
  <2>1. q.saw = None /\ reports \ {q} \subseteq reports'
    BY <1>2 DEF ReportChecks
  <2> QED
    BY <2>1
<1>3. ASSUME NEW q \in reports, ReportBans(q)
      PROVE  ~NotBanned(r.hash)' \/ verdicts[r.hash] = "allowed"
  <2>1. q = r /\ verdicts' = Banned(r.hash)
    BY <1>3 DEF ReportBans
  <2>2. verdicts'[r.hash] = IF verdicts[r.hash] = "none" THEN "auto" ELSE verdicts[r.hash]
    BY <1>1, <2>1 DEF Banned
  <2>3. verdicts[r.hash] \in Verdicts
    BY <1>1
  <2> QED
    BY <2>2, <2>3 DEF NotBanned, Verdicts
<1> QED
  BY <1>1, <1>2, <1>3, AvatarActs
     DEF avatarVars, Remove, SignIn, Upload, ReportReads, PopulateFails, Populate,
         Restore, Confirm, ForgetAvatar

LEMMA RemovalStep ==
  ASSUME SocialInv, [Next]_vars, NEW u \in Users,
         avatars[u] = "removed", avatars'[u] \in Hashes
  PROVE  \/ served' = served + 1
         \/ \E p \in populating \ populating' : p.user = u /\ p.had = "none"
<1>1. /\ avatars \in [Users -> Hashes \cup {"none", "removed"}]
      /\ "none" \notin Hashes /\ "removed" \notin Hashes
  BY AvatarsAssumption DEF SocialInv, AvatarsInv, AvatarsTypeOK
<1>2. ASSUME NEW p \in populating, NEW h \in Hashes, Populate(p, h)
      PROVE  \E q \in populating \ populating' : q.user = u /\ q.had = "none"
  <2>1. p.user = u /\ p \notin populating'
    BY <1>1, <1>2 DEF Populate
  <2> QED
    BY <2>1 DEF SocialInv, AvatarsInv, WorkUnderWay
<1>3. ASSUME NEW v \in Users, NEW h \in Hashes, Upload(v, h) PROVE served' = served + 1
  BY <1>3 DEF Upload, Serve
<1>4. ASSUME NEW h \in Hashes, Confirm(h) PROVE FALSE
  BY <1>1, <1>4 DEF Confirm
<1>5. ASSUME NEW v \in Users, Remove(v) \/ ForgetAvatar(v) PROVE FALSE
  BY <1>1, <1>5 DEF Remove, ForgetAvatar
<1> QED
  BY <1>1, <1>2, <1>3, <1>4, <1>5, AvatarActs
     DEF avatarVars, SignIn, ReportReads, PopulateFails, ReportChecks, ReportBans, Restore

\* A moderator's verdict is changed by a moderator only, a report answered with
\* ok has hidden the image unless a moderator came in between, and what was
\* removed comes back by its user's hand or by a sign-in that had looked before.
THEOREM VerdictsStand == Spec => VerdictsHold
<1> DEFINE Human == \A h \in Hashes : verdicts[h] \in {"allowed", "confirmed"} =>
                      verdicts'[h] = verdicts[h] \/ served' = served + 1
           Ok == \A r \in reports \ reports' :
                   r.saw # None => \/ ~NotBanned(r.hash)'
                                   \/ r.saw # "allowed" /\ verdicts[r.hash] = "allowed"
           Stays == \A u \in Users : avatars[u] = "removed" /\ avatars'[u] \in Hashes =>
                      \/ served' = served + 1
                      \/ \E p \in populating \ populating' : p.user = u /\ p.had = "none"
<1>1. SocialInv /\ [Next]_vars => Human /\ Ok /\ Stays
  BY HumanStep, OkStep, RemovalStep
<1>2. SocialInv /\ [Next]_vars => [Human]_avatarVars /\ [Ok]_avatarVars /\ [Stays]_avatarVars
  BY <1>1
<1>3. Spec => [][Human]_avatarVars /\ [][Ok]_avatarVars /\ [][Stays]_avatarVars
  BY <1>2, SocialInvariant, PTL DEF Spec
<1> QED
  BY <1>3 DEF VerdictsHold, HumanDecides, OkMeansHidden, RemovalStays

-----------------------------------------------------------------------------
\* The photo dialog.

\* The arithmetic of the crop: a picture zoomed by a whole number covers the frame.
LEMMA DivisionBounds ==
  \A n, s, f \in Nat : s > 0 /\ n >= f * s => n \div s \in Nat /\ n \div s >= f
  BY SMTT(60)

LEMMA ProductsGrow ==
  \A z, d, s \in Nat : z >= 1 /\ d >= s => Frame * z * d \in Nat /\ Frame * z * d >= Frame * s
<1> SUFFICES ASSUME NEW z \in Nat, NEW d \in Nat, NEW s \in Nat, z >= 1, d >= s
             PROVE  Frame * z * d \in Nat /\ Frame * z * d >= Frame * s
  OBVIOUS
<1>1. Frame \in Nat
  BY AvatarPanelAssumption
<1>2. z * d >= d
  OBVIOUS
<1>3. Frame * (z * d) >= Frame * s
  BY <1>1, <1>2
<1>4. Frame * z * d = Frame * (z * d)
  BY <1>1
<1> QED
  BY <1>1, <1>3, <1>4

LEMMA PictureCovers ==
  ASSUME NEW i \in Images, NEW side \in {"width", "height"}, NEW zoom \in Nat \ {0}
  PROVE  Displayed(i, side, zoom) \in Nat /\ Displayed(i, side, zoom) >= Frame
<1> DEFINE s == IF i.width < i.height THEN i.width ELSE i.height
           n == Frame * zoom * i[side]
<1>1. i.width \in Nat \ {0} /\ i.height \in Nat \ {0} /\ Frame \in Nat
  BY AvatarPanelAssumption
<1>2. i[side] = i.width \/ i[side] = i.height
  OBVIOUS
<1>3. s \in Nat /\ s > 0 /\ i[side] \in Nat /\ i[side] >= s
  BY <1>1, <1>2
<1> HIDE DEF s
<1>4. n \in Nat /\ n >= Frame * s
  BY <1>3, ProductsGrow
<1> HIDE DEF n
<1>5. n \div s \in Nat /\ n \div s >= Frame
  BY <1>1, <1>3, <1>4, DivisionBounds
<1> QED
  BY <1>5 DEF n, s, Displayed

ViewStates == [zoom : 1 .. MaxZoom, x : Int, y : Int]

LEMMA InitialCovers ==
  \A i \in Images : InitialView(i) \in ViewStates /\ Covers(InitialView(i), i)
<1> TAKE i \in Images
<1> DEFINE w == Displayed(i, "width", 1)
           h == Displayed(i, "height", 1)
<1>1. w \in Nat /\ w >= Frame /\ h \in Nat /\ h >= Frame
  BY PictureCovers
<1>2. Frame \in Nat /\ 1 \in 1 .. MaxZoom
  BY AvatarPanelAssumption
<1> HIDE DEF w, h
<1>3. /\ (Frame - w) \div 2 \in Int /\ (Frame - w) \div 2 <= 0 /\ (Frame - w) \div 2 + w >= Frame
      /\ (Frame - h) \div 2 \in Int /\ (Frame - h) \div 2 <= 0 /\ (Frame - h) \div 2 + h >= Frame
  BY <1>1, <1>2
<1>4. InitialView(i) = [zoom |-> 1, x |-> (Frame - w) \div 2, y |-> (Frame - h) \div 2]
  BY DEF InitialView, w, h
<1>5. InitialView(i) \in ViewStates
  BY <1>2, <1>3, <1>4 DEF ViewStates
<1> QED
  BY <1>3, <1>4, <1>5 DEF Covers, w, h

LEMMA ClampBounds ==
  \A v, low, high \in Int : low <= high => Clamp(v, low, high) \in low .. high
  BY DEF Clamp

LEMMA ClampCovers ==
  \A i \in Images, v \in [zoom : Int, x : Int, y : Int] :
    ClampView(v, i) \in ViewStates /\ Covers(ClampView(v, i), i)
<1> TAKE i \in Images, v \in [zoom : Int, x : Int, y : Int]
<1> DEFINE zoom == Clamp(v.zoom, 1, MaxZoom)
           w == Displayed(i, "width", zoom)
           h == Displayed(i, "height", zoom)
           x == Clamp(v.x, Frame - w, 0)
           y == Clamp(v.y, Frame - h, 0)
<1>1. Frame \in Nat /\ MaxZoom \in Nat /\ 1 <= MaxZoom
  BY AvatarPanelAssumption
<1>2. zoom \in 1 .. MaxZoom /\ zoom \in Nat \ {0}
  <2>1. v.zoom \in Int /\ 1 \in Int /\ MaxZoom \in Int
    BY <1>1
  <2>2. Clamp(v.zoom, 1, MaxZoom) \in 1 .. MaxZoom
    BY <1>1, <2>1 DEF Clamp
  <2> QED
    BY <1>1, <2>2
<1> HIDE DEF zoom
<1>3. w \in Nat /\ w >= Frame /\ h \in Nat /\ h >= Frame
  BY <1>2, PictureCovers
<1> HIDE DEF w, h
<1>4. x \in (Frame - w) .. 0 /\ y \in (Frame - h) .. 0
  <2>1. v.x \in Int /\ v.y \in Int
    OBVIOUS
  <2>2. Frame - w \in Int /\ Frame - w <= 0 /\ Frame - h \in Int /\ Frame - h <= 0
    BY <1>1, <1>3
  <2> QED
    BY <2>1, <2>2, ClampBounds
<1> HIDE DEF x, y
<1>5. ClampView(v, i) = [zoom |-> zoom, x |-> x, y |-> y]
  BY DEF ClampView, zoom, w, h, x, y
<1>6. ClampView(v, i) \in ViewStates
  BY <1>1, <1>2, <1>3, <1>4, <1>5 DEF ViewStates
<1>7. x <= 0 /\ x + w >= Frame /\ y <= 0 /\ y + h >= Frame
  BY <1>1, <1>3, <1>4
<1> QED
  BY <1>5, <1>6, <1>7 DEF Covers, w, h

-----------------------------------------------------------------------------
Kinds == {"file", "provider", "removed"}
Stagings == {"cropping", "dropped", "sent", "landed", "settled"}
SaveStates == [kind : Kinds, panel : Nat, draft : Nat, answer : Codes \cup {""}, stage : Stagings,
               followed : BOOLEAN]
DraftStates ==
  [kind : Kinds \cup {"current"}, state : {"loading", "ready", "broken"},
   image : Images \cup {NoImage}, view : ViewStates]

PanelTypes ==
  /\ stored \in Photos \cup {"none"}
  /\ cached \in [hash : Photos \cup {"none", "unknown"}, asking : BOOLEAN]
  /\ draft \in DraftStates /\ saves \in Seq(SaveStates) /\ behind \in BOOLEAN
  /\ shown \in Codes \cup {""} /\ announced \in Codes \cup {"", "updated", "removed"}
  /\ panel \in Nat /\ drafts \in 0 .. MaxDrafts /\ mishaps \in 0 .. MaxMishaps
  /\ spoken \in SUBSET DOMAIN saves /\ slipped \in SUBSET DOMAIN saves
  /\ shownOf \in 0 .. Len(saves) /\ closedBy \in [save : 0 .. Len(saves), draft : Nat]

\* Only a file that loaded is ready, and it is framed.
PictureFramed ==
  /\ draft.kind = "file" => draft.image \in Images
  /\ draft.state = "ready" => draft.kind = "file" /\ Covers(draft.view, draft.image)

PanelsNumbered ==
  /\ panel <= drafts
  /\ \A i \in DOMAIN saves : 1 <= saves[i].panel /\ saves[i].panel <= drafts

UnderWay(i) == saves[i].stage \in {"cropping", "sent", "landed"}

\* What is under way and was not left behind is the last press of Save, of the draft that is
\* staged, while the dialog it was pressed in is open; that closes under it by the end of an
\* earlier save that was left behind.
OfTheDraft(i) ==
  /\ i = Len(saves) /\ saves[i].draft = drafts /\ saves[i].kind = draft.kind
  /\ draft.kind = "file" => draft.state = "ready"
PendingIsLast ==
  /\ \A i \in DOMAIN saves :
       UnderWay(i) /\ i \notin slipped /\ saves[i].panel = panel => OfTheDraft(i)
  /\ \A i \in DOMAIN saves :
       UnderWay(i) /\ i \notin slipped /\ saves[i].panel # panel => \E k \in slipped : k < i

\* A call in flight that was not left behind is the one its mutation follows.
LastIsFollowed ==
  \A i \in DOMAIN saves :
    saves[i].stage \in {"sent", "landed"} /\ i \notin slipped => saves[i].followed

EndsAreNews ==
  slipped = {} => \A i \in DOMAIN saves :
                    /\ saves[i].stage \in {"sent", "landed"} => announced = ""
                    /\ saves[i].stage = "settled" => i \in spoken

MessageHasASave ==
  shown # "" =>
    shownOf \in DOMAIN saves /\ (saves[shownOf].draft = drafts \/ shownOf \in slipped)

ClosedByItsSave ==
  closedBy.save # 0 =>
    /\ closedBy.save \in DOMAIN saves
    /\ saves[closedBy.save].draft = closedBy.draft \/ \E i \in slipped : i <= closedBy.save

\* The row is another than the picture shown while the answer of who wrote it is on its way.
RowIsSeen ==
  ~cached.asking /\ ~behind /\ cached.hash # stored =>
    \E i \in DOMAIN saves : saves[i].stage = "landed" /\ saves[i].answer = ""

NothingLost ==
  mishaps = 0 => \A i \in DOMAIN saves : saves[i].answer = "" /\ saves[i].stage # "dropped"

AnsweredOnceLanded ==
  \A i \in DOMAIN saves : saves[i].stage \notin {"landed", "settled"} => saves[i].answer = ""

RowIsTheLast ==
  slipped = {} /\ mishaps = 0 =>
    \A i \in DOMAIN saves :
      i = Len(saves) /\ saves[i].stage \in {"landed", "settled"} => stored = Row(saves[i].kind)

PhotoInv ==
  /\ PanelTypes /\ PictureFramed /\ PanelsNumbered /\ PendingIsLast /\ EndsAreNews
  /\ MessageHasASave /\ ClosedByItsSave /\ RowIsSeen /\ NothingLost /\ RowIsTheLast
  /\ AnsweredOnceLanded /\ LastIsFollowed

LEMMA SaveFits ==
  PanelTypes => \A i \in DOMAIN saves :
                  /\ saves[i] \in SaveStates /\ saves[i].stage \in Stagings
                  /\ saves[i].panel \in Nat /\ saves[i].draft \in Nat /\ saves[i].kind \in Kinds
                  /\ saves[i].answer \in Codes \cup {""}
<1> SUFFICES ASSUME PanelTypes, NEW i \in DOMAIN saves
             PROVE  /\ saves[i] \in SaveStates /\ saves[i].stage \in Stagings
                    /\ saves[i].panel \in Nat /\ saves[i].draft \in Nat
                    /\ saves[i].kind \in Kinds /\ saves[i].answer \in Codes \cup {""}
  OBVIOUS
<1>1. saves \in Seq(SaveStates)
  BY DEF PanelTypes
<1>2. saves[i] \in SaveStates
  BY <1>1
<1> QED
  BY <1>2 DEF SaveStates

LEMMA CountersFit ==
  /\ PanelTypes => panel \in Nat /\ drafts \in Nat /\ 0 <= drafts
  /\ PanelTypes /\ drafts < MaxDrafts => drafts + 1 \in 0 .. MaxDrafts
  /\ PanelTypes /\ Mishap => mishaps' \in 0 .. MaxMishaps /\ mishaps' # 0
<1>1. PanelTypes => panel \in Nat /\ drafts \in 0 .. MaxDrafts /\ mishaps \in 0 .. MaxMishaps
  BY DEF PanelTypes
<1>2. MaxDrafts \in Nat /\ MaxMishaps \in Nat
  BY AvatarPanelAssumption
<1>3. Mishap => mishaps < MaxMishaps /\ mishaps' = mishaps + 1
  BY DEF Mishap
<1> QED
  BY <1>1, <1>2, <1>3

LEMMA PhotoIsThen == PhotoInv => PhotoIsAsSaved
<1> SUFFICES ASSUME PhotoInv PROVE PhotoIsAsSaved
  OBVIOUS
<1> USE DEF PhotoInv
<1>1. AvatarPanelTypeOK
  <2>1. /\ draft.kind \in Kinds \cup {"current"} /\ draft.state \in {"loading", "ready", "broken"}
        /\ draft.view \in ViewStates
    BY DEF PanelTypes, DraftStates
  <2>2. draft.view.zoom \in 1 .. MaxZoom
    BY <2>1 DEF ViewStates
  <2>3. panel \in 0 .. drafts
    <3>1. panel \in Nat /\ drafts \in 0 .. MaxDrafts /\ panel <= drafts
      BY DEF PanelTypes, PanelsNumbered
    <3> QED
      BY <3>1
  <2>4. \A i \in DOMAIN saves : saves[i].stage \in {"cropping", "dropped", "sent", "landed", "settled"}
    BY SaveFits DEF Stagings
  <2> QED
    BY <2>1, <2>2, <2>3, <2>4 DEF PanelTypes, AvatarPanelTypeOK, Kinds
<1>2. NoBite
  BY DEF PictureFramed, NoBite
<1>3. EveryEndIsHeard
  BY DEF EndsAreNews, EveryEndIsHeard
<1>4. MessageIsOfTheDraft
  BY DEF MessageHasASave, MessageIsOfTheDraft
<1>5. DraftsAreKept
  BY DEF ClosedByItsSave, DraftsAreKept
<1>6. LastSaveStands
  <2> SUFFICES ASSUME Cropping \cup InFlight = {}
               PROVE  /\ ~cached.asking /\ ~behind => cached.hash = stored
                      /\ \A i \in DOMAIN saves :
                           /\ saves[i].answer = "" /\ saves[i].stage = "settled"
                           /\ \A j \in DOMAIN saves :
                                j > i => saves[j].answer # "" \/ saves[j].stage = "dropped"
                           /\ slipped = {} /\ mishaps = 0
                           => stored = Row(saves[i].kind)
    BY DEF LastSaveStands
  <2>1. ~cached.asking /\ ~behind => cached.hash = stored
    BY DEF RowIsSeen, InFlight
  <2>2. ASSUME NEW i \in DOMAIN saves, saves[i].stage = "settled", slipped = {}, mishaps = 0,
               \A j \in DOMAIN saves : j > i => saves[j].answer # "" \/ saves[j].stage = "dropped"
        PROVE  stored = Row(saves[i].kind)
    <3>1. \A j \in DOMAIN saves : ~(j > i)
      BY <2>2 DEF NothingLost
    <3>2. i = Len(saves)
      <4>1. saves \in Seq(SaveStates)
        BY DEF PanelTypes
      <4>2. Len(saves) \in Nat /\ DOMAIN saves = 1 .. Len(saves)
        BY <4>1
      <4> QED
        BY <3>1, <4>2
    <3> QED
      BY <2>2, <3>2 DEF RowIsTheLast
  <2> QED
    BY <2>1, <2>2
<1> QED
  BY <1>1, <1>2, <1>3, <1>4, <1>5, <1>6 DEF PhotoIsAsSaved

LEMMA StagedFits ==
  \A kind \in Kinds \cup {"current"}, image \in Images \cup {NoImage} :
    /\ Staged(kind, image) \in DraftStates /\ Staged(kind, image).kind = kind
    /\ Staged(kind, image).state = "loading" /\ Staged(kind, image).image = image
<1>1. 1 \in 1 .. MaxZoom
  BY AvatarPanelAssumption
<1>2. NoView \in ViewStates
  BY <1>1 DEF NoView, ViewStates
<1> QED
  BY <1>2 DEF Staged, DraftStates

LEMMA PhotoInitInv == AvatarPanelInit => PhotoInv
<1> SUFFICES ASSUME AvatarPanelInit PROVE PhotoInv
  OBVIOUS
<1>1. /\ stored = "old" /\ cached = [hash |-> "unknown", asking |-> TRUE]
      /\ panel = 0 /\ draft = Staged("current", NoImage) /\ shown = "" /\ announced = ""
      /\ saves = <<>> /\ drafts = 0 /\ mishaps = 0
      /\ spoken = {} /\ slipped = {} /\ behind = FALSE /\ shownOf = 0
      /\ closedBy = [save |-> 0, draft |-> 0]
  BY DEF AvatarPanelInit
<1>2. DOMAIN saves = {} /\ Len(saves) = 0 /\ saves \in Seq(SaveStates)
  <2>1. saves = <<>>
    BY <1>1
  <2> QED
    BY <2>1
<1>3. /\ draft \in DraftStates /\ draft.kind = "current" /\ draft.state = "loading"
  BY <1>1, StagedFits
<1>4. drafts \in 0 .. MaxDrafts /\ mishaps \in 0 .. MaxMishaps /\ 0 <= 0
  <2>1. drafts = 0 /\ mishaps = 0
    BY <1>1
  <2> QED
    BY <2>1, AvatarPanelAssumption
<1>5. shownOf \in 0 .. Len(saves) /\ closedBy \in [save : 0 .. Len(saves), draft : Nat]
  <2>1. shownOf = 0 /\ closedBy = [save |-> 0, draft |-> 0]
    BY <1>1
  <2>2. 0 \in 0 .. Len(saves)
    BY <1>2
  <2> QED
    BY <2>1, <2>2
<1>6. PanelTypes
  BY <1>1, <1>2, <1>3, <1>4, <1>5 DEF PanelTypes, Photos
<1>7. PictureFramed
  BY <1>3 DEF PictureFramed
<1>8. PanelsNumbered
  BY <1>1, <1>2, <1>4 DEF PanelsNumbered
<1>9. /\ PendingIsLast /\ EndsAreNews /\ NothingLost /\ RowIsTheLast /\ AnsweredOnceLanded
      /\ LastIsFollowed
  BY <1>2 DEF PendingIsLast, EndsAreNews, NothingLost, RowIsTheLast, AnsweredOnceLanded,
              LastIsFollowed
<1>10. MessageHasASave /\ ClosedByItsSave /\ RowIsSeen
  BY <1>1 DEF MessageHasASave, ClosedByItsSave, RowIsSeen
<1> QED
  BY <1>6, <1>7, <1>8, <1>9, <1>10 DEF PhotoInv

\* A part of the invariant holds on while what it is about stays, and saves left behind are
\* added at most.
LEMMA PhotoKept ==
  /\ PictureFramed /\ UNCHANGED draft => PictureFramed'
  /\ PanelsNumbered /\ UNCHANGED <<panel, drafts, saves>> => PanelsNumbered'
  /\ EndsAreNews /\ UNCHANGED <<saves, spoken, announced>> /\ slipped \subseteq slipped' =>
       EndsAreNews'
  /\ MessageHasASave /\ UNCHANGED <<shown, saves, shownOf, drafts>> /\ slipped \subseteq slipped' =>
       MessageHasASave'
  /\ shown' = "" => MessageHasASave'
  /\ RowIsSeen /\ UNCHANGED <<cached, behind, saves, stored>> => RowIsSeen'
  /\ cached'.asking => RowIsSeen'
  /\ NothingLost /\ UNCHANGED <<saves, mishaps>> => NothingLost'
  /\ AnsweredOnceLanded /\ UNCHANGED saves => AnsweredOnceLanded'
  /\ RowIsTheLast /\ UNCHANGED <<saves, mishaps, stored>> /\ slipped \subseteq slipped' =>
       RowIsTheLast'
  /\ ClosedByItsSave /\ UNCHANGED <<saves, closedBy>> /\ slipped \subseteq slipped' =>
       ClosedByItsSave'
  /\ PendingIsLast /\ UNCHANGED <<saves, panel, draft, drafts>> /\ slipped \subseteq slipped' =>
       PendingIsLast'
  /\ LastIsFollowed /\ UNCHANGED saves /\ slipped \subseteq slipped' => LastIsFollowed'
<1>1. PictureFramed /\ UNCHANGED draft => PictureFramed'
  BY DEF PictureFramed, Covers, Displayed
<1>2. PanelsNumbered /\ UNCHANGED <<panel, drafts, saves>> => PanelsNumbered'
  BY DEF PanelsNumbered
<1>3. EndsAreNews /\ UNCHANGED <<saves, spoken, announced>> /\ slipped \subseteq slipped' => EndsAreNews'
  BY DEF EndsAreNews
<1>4. /\ MessageHasASave /\ UNCHANGED <<shown, saves, shownOf, drafts>> /\ slipped \subseteq slipped' =>
           MessageHasASave'
      /\ shown' = "" => MessageHasASave'
  BY DEF MessageHasASave
<1>5. /\ RowIsSeen /\ UNCHANGED <<cached, behind, saves, stored>> => RowIsSeen'
      /\ cached'.asking => RowIsSeen'
  <2>1. RowIsSeen /\ UNCHANGED <<cached, behind, saves, stored>> => RowIsSeen'
    <3> SUFFICES ASSUME RowIsSeen, cached' = cached, behind' = behind, saves' = saves, stored' = stored
                 PROVE  RowIsSeen'
      OBVIOUS
    <3> QED
      BY Zenon DEF RowIsSeen
  <2>2. cached'.asking => RowIsSeen'
    BY Zenon DEF RowIsSeen
  <2> QED
    BY <2>1, <2>2
<1>6. /\ NothingLost /\ UNCHANGED <<saves, mishaps>> => NothingLost'
      /\ AnsweredOnceLanded /\ UNCHANGED saves => AnsweredOnceLanded'
  BY DEF NothingLost, AnsweredOnceLanded
<1>7. RowIsTheLast /\ UNCHANGED <<saves, mishaps, stored>> /\ slipped \subseteq slipped' => RowIsTheLast'
  BY DEF RowIsTheLast, Row
<1>8. ClosedByItsSave /\ UNCHANGED <<saves, closedBy>> /\ slipped \subseteq slipped' => ClosedByItsSave'
  BY DEF ClosedByItsSave
<1>9. PendingIsLast /\ UNCHANGED <<saves, panel, draft, drafts>> /\ slipped \subseteq slipped' =>
        PendingIsLast'
  BY DEF PendingIsLast, UnderWay, OfTheDraft
<1>10. LastIsFollowed /\ UNCHANGED saves /\ slipped \subseteq slipped' => LastIsFollowed'
  BY DEF LastIsFollowed
<1> QED
  BY <1>1, <1>2, <1>3, <1>4, <1>5, <1>6, <1>7, <1>8, <1>9, <1>10

\* A save is waited for while it is in flight, its dialog is open and it was not left behind.
LEMMA SavingWhileInFlight ==
  ASSUME PhotoInv, ~Saving, NEW i \in DOMAIN saves, UnderWay(i), i \notin slipped,
         saves[i].panel = panel
  PROVE  i \in Cropping
<1> SUFFICES ASSUME i \notin Cropping PROVE FALSE
  OBVIOUS
<1>1. i \in InFlight
  BY DEF UnderWay, InFlight, Cropping
<1>2. Followed(i)
  BY <1>1 DEF PhotoInv, LastIsFollowed, InFlight, Followed
<1> QED
  BY <1>1, <1>2 DEF Saving

\* With none left behind, at most one save is under way.
LEMMA PendingAlone ==
  ASSUME PhotoInv, slipped = {}, NEW i \in DOMAIN saves, UnderWay(i)
  PROVE  i = Len(saves) /\ OfTheDraft(i) /\ saves[i].panel = panel
  BY DEF PhotoInv, PendingIsLast, OfTheDraft

LEMMA OpensPanelStep == ASSUME PhotoInv, OpensPanel PROVE PhotoInv'
<1> USE DEF PhotoInv
<1>1. /\ panel = 0 /\ drafts < MaxDrafts /\ drafts' = drafts + 1 /\ panel' = drafts + 1
      /\ draft' = Staged("current", NoImage) /\ shown' = ""
      /\ cached' = [cached EXCEPT !.asking = TRUE]
      /\ UNCHANGED <<stored, announced, saves, mishaps, spoken, slipped, behind, shownOf, closedBy>>
  BY DEF OpensPanel
<1>2. /\ cached' \in [hash : Photos \cup {"none", "unknown"}, asking : BOOLEAN]
      /\ cached'.asking
  BY <1>1 DEF PanelTypes
<1>3. drafts \in Nat /\ drafts' \in 0 .. MaxDrafts /\ panel' \in Nat /\ panel' <= drafts'
  <2>1. drafts \in Nat /\ drafts + 1 \in 0 .. MaxDrafts
    BY <1>1, CountersFit
  <2>2. drafts + 1 \in Nat /\ drafts + 1 <= drafts + 1
    BY <2>1
  <2> QED
    BY <1>1, <2>1, <2>2
<1>4. draft' \in DraftStates /\ draft'.kind = "current" /\ draft'.state = "loading"
  BY <1>1, StagedFits
<1>5. PanelTypes'
  BY <1>1, <1>2, <1>3, <1>4 DEF PanelTypes
<1>6. PictureFramed'
  BY <1>4 DEF PictureFramed
<1>7. \A i \in DOMAIN saves : saves[i].panel \in Nat /\ 1 <= saves[i].panel /\ saves[i].panel <= drafts
  BY SaveFits DEF PanelsNumbered
<1>8. PanelsNumbered'
  <2>1. \A i \in DOMAIN saves : 1 <= saves[i].panel /\ saves[i].panel <= drafts + 1
    BY <1>3, <1>7
  <2> QED
    BY <1>1, <1>3, <2>1 DEF PanelsNumbered
<1>9. PendingIsLast'
  <2>1. \A i \in DOMAIN saves : saves[i].panel # panel /\ saves[i].panel # drafts + 1
    <3> TAKE i \in DOMAIN saves
    <3> DEFINE q == saves[i].panel
    <3>1. q \in Nat /\ 1 <= q /\ q <= drafts /\ panel = 0 /\ drafts \in Nat
      BY <1>1, <1>3, <1>7
    <3> HIDE DEF q
    <3>2. q # panel /\ q # drafts + 1
      BY <3>1
    <3> QED
      BY <3>2 DEF q
  <2>2. \A i \in DOMAIN saves : UnderWay(i) /\ i \notin slipped => \E k \in slipped : k < i
    BY <2>1 DEF PendingIsLast
  <2> QED
    BY <1>1, <2>1, <2>2 DEF PendingIsLast, UnderWay
<1> QED
  BY <1>1, <1>2, <1>5, <1>6, <1>8, <1>9, PhotoKept

\* The dialog closes, and takes the draft with it.
LEMMA UnmountFits ==
  ASSUME PhotoInv, Unmounts
  PROVE  /\ draft' \in DraftStates /\ panel' = 0 /\ panel' \in Nat /\ shown' = ""
         /\ PictureFramed' /\ MessageHasASave'
<1>1. panel' = 0 /\ draft' = Staged("current", NoImage) /\ shown' = ""
  BY DEF Unmounts
<1>2. draft' \in DraftStates /\ draft'.kind = "current" /\ draft'.state = "loading"
  BY <1>1, StagedFits
<1>3. PictureFramed'
  BY <1>2 DEF PictureFramed
<1> QED
  BY <1>1, <1>2, <1>3, PhotoKept

LEMMA ClosesStep == ASSUME PhotoInv, Cancels \/ Dismisses PROVE PhotoInv'
<1> USE DEF PhotoInv
<1>1. /\ Unmounts
      /\ UNCHANGED <<stored, cached, announced, saves, drafts, mishaps, spoken, behind, shownOf, closedBy>>
      /\ \/ ~Saving /\ slipped' = slipped \cup Cropping
         \/ slipped' = slipped \cup Cropping \cup InFlight
  BY DEF Cancels, Dismisses
<1>2. slipped \subseteq slipped' /\ slipped' \in SUBSET DOMAIN saves
  BY <1>1 DEF PanelTypes, Cropping, InFlight
<1>3. draft' \in DraftStates /\ panel' = 0 /\ panel' \in Nat /\ shown' = "" /\ PictureFramed' /\ MessageHasASave'
  BY <1>1, UnmountFits
<1>4. PanelTypes'
  BY <1>1, <1>2, <1>3 DEF PanelTypes
<1>5. \A i \in DOMAIN saves : saves[i].panel \in Nat /\ 1 <= saves[i].panel /\ saves[i].panel <= drafts
  BY SaveFits DEF PanelsNumbered
<1>6. PanelsNumbered'
  <2>1. 0 <= drafts
    BY CountersFit
  <2> QED
    BY <1>1, <1>3, <1>5, <2>1 DEF PanelsNumbered
<1>7. \A i \in DOMAIN saves : UnderWay(i) /\ i \notin slipped' => saves[i].panel # panel
  <2> SUFFICES ASSUME NEW i \in DOMAIN saves, UnderWay(i), i \notin slipped', saves[i].panel = panel
               PROVE  FALSE
    OBVIOUS
  <2>1. i \notin slipped /\ i \notin Cropping
    BY <1>1
  <2>2. i \in InFlight
    BY <2>1 DEF UnderWay, InFlight, Cropping
  <2> QED
    BY <1>1, <2>1, <2>2, SavingWhileInFlight
<1>8. PendingIsLast'
  <2>1. \A i \in DOMAIN saves : saves[i].panel # panel'
    <3> TAKE i \in DOMAIN saves
    <3> DEFINE q == saves[i].panel
    <3>1. q \in Nat /\ 1 <= q
      BY <1>5
    <3> HIDE DEF q
    <3>2. q # 0
      BY <3>1
    <3> QED
      BY <1>3, <3>2 DEF q
  <2>2. \A i \in DOMAIN saves : UnderWay(i) /\ i \notin slipped' => \E k \in slipped' : k < i
    BY <1>2, <1>7 DEF PendingIsLast
  <2> QED
    BY <1>1, <2>1, <2>2 DEF PendingIsLast, UnderWay
<1> QED
  BY <1>1, <1>2, <1>3, <1>4, <1>6, <1>8, PhotoKept

LEMMA StagesStep ==
  ASSUME PhotoInv, NEW kind \in Kinds, NEW image \in Images \cup {NoImage}, Stages(kind, image),
         kind = "file" => image \in Images
  PROVE  PhotoInv'
<1> USE DEF PhotoInv
<1>1. /\ panel # 0 /\ ~Saving /\ drafts < MaxDrafts
      /\ drafts' = drafts + 1 /\ draft' = Staged(kind, image) /\ shown' = ""
      /\ slipped' = slipped \cup Cropping
      /\ UNCHANGED <<stored, cached, panel, announced, saves, mishaps, spoken, behind, shownOf, closedBy>>
  BY DEF Stages, Cleared
<1>2. slipped \subseteq slipped' /\ slipped' \in SUBSET DOMAIN saves
  BY <1>1 DEF PanelTypes, Cropping
<1>3. /\ draft' \in DraftStates /\ draft'.kind = kind /\ draft'.state = "loading"
      /\ draft'.image = image
  BY <1>1, StagedFits
<1>4. drafts \in Nat /\ drafts' \in 0 .. MaxDrafts /\ panel \in Nat
  BY <1>1, CountersFit
<1>5. PanelTypes'
  BY <1>1, <1>2, <1>3, <1>4 DEF PanelTypes
<1>6. PictureFramed'
  BY <1>3 DEF PictureFramed
<1>7. PanelsNumbered'
  <2>1. \A i \in DOMAIN saves : saves[i].panel \in Nat /\ 1 <= saves[i].panel /\ saves[i].panel <= drafts
    BY SaveFits DEF PanelsNumbered
  <2>2. /\ panel <= drafts + 1
        /\ \A i \in DOMAIN saves : 1 <= saves[i].panel /\ saves[i].panel <= drafts + 1
    BY <1>4, <2>1 DEF PanelsNumbered
  <2> QED
    BY <1>1, <2>2 DEF PanelsNumbered
<1>8. \A i \in DOMAIN saves : UnderWay(i) /\ i \notin slipped' => saves[i].panel # panel
  <2> SUFFICES ASSUME NEW i \in DOMAIN saves, UnderWay(i), i \notin slipped', saves[i].panel = panel
               PROVE  FALSE
    OBVIOUS
  <2>1. i \notin slipped /\ i \notin Cropping
    BY <1>1
  <2> QED
    BY <1>1, <2>1, SavingWhileInFlight
<1>9. PendingIsLast'
  <2>1. \A i \in DOMAIN saves : UnderWay(i) /\ i \notin slipped' => \E k \in slipped' : k < i
    BY <1>2, <1>8 DEF PendingIsLast
  <2> QED
    BY <1>1, <1>8, <2>1 DEF PendingIsLast, UnderWay
<1> QED
  BY <1>1, <1>2, <1>5, <1>6, <1>7, <1>9, PhotoKept

\* The preview: the draft keeps its kind, and one under way is not loading.
LEMMA ImageLoadsStep == ASSUME PhotoInv, ImageLoads PROVE PhotoInv'
<1> USE DEF PhotoInv
<1>1. draft \in DraftStates
  BY DEF PanelTypes
<1>2. /\ draft.kind = "file" /\ draft.state = "loading"
      /\ draft' = [[draft EXCEPT !.state = "ready"] EXCEPT !.view = InitialView(draft.image)]
      /\ UNCHANGED <<stored, cached, panel, shown, announced, saves, drafts, mishaps, spoken,
                     slipped, behind, shownOf, closedBy>>
  BY <1>1 DEF ImageLoads, DraftStates
<1>3. draft.image \in Images
  BY <1>2 DEF PictureFramed
<1>4. InitialView(draft.image) \in ViewStates /\ Covers(InitialView(draft.image), draft.image)
  BY <1>3, InitialCovers
<1>5. /\ draft' \in DraftStates /\ draft'.kind = "file" /\ draft'.state = "ready"
      /\ draft'.image = draft.image /\ draft'.view = InitialView(draft.image)
  BY <1>1, <1>2, <1>4 DEF DraftStates
<1>6. PanelTypes'
  BY <1>2, <1>5 DEF PanelTypes
<1>7. PictureFramed'
  <2>1. Covers(draft'.view, draft'.image)
    BY <1>4, <1>5
  <2>2. Covers(draft'.view, draft'.image) <=> Covers(draft.view, draft.image)'
    BY DEF Covers, Displayed
  <2> QED
    BY <1>3, <1>5, <2>1, <2>2 DEF PictureFramed
<1>8. PendingIsLast'
  BY <1>2, <1>5 DEF PendingIsLast, UnderWay, OfTheDraft
<1> QED
  BY <1>2, <1>6, <1>7, <1>8, PhotoKept

LEMMA PreviewBreaksStep == ASSUME PhotoInv, PreviewBreaks PROVE PhotoInv'
<1> USE DEF PhotoInv
<1>1. draft \in DraftStates
  BY DEF PanelTypes
<1>2. /\ draft.state = "loading" /\ draft' = [draft EXCEPT !.state = "broken"]
      /\ mishaps < MaxMishaps /\ mishaps' = mishaps + 1
      /\ \/ draft.kind = "file" /\ announced' = "not_an_image"
         \/ draft.kind = "provider" /\ UNCHANGED announced
      /\ UNCHANGED <<stored, cached, panel, shown, saves, drafts, spoken, slipped, behind,
                     shownOf, closedBy>>
  BY DEF PreviewBreaks, Mishap
<1>3. /\ draft' \in DraftStates /\ draft'.kind = draft.kind /\ draft'.state = "broken"
      /\ draft'.image = draft.image
  BY <1>1, <1>2 DEF DraftStates
<1>4. mishaps' \in 0 .. MaxMishaps /\ mishaps' # 0
  BY <1>2, CountersFit DEF Mishap
<1>5. announced' \in Codes \cup {"", "updated", "removed"}
  BY <1>2 DEF PanelTypes, Codes
<1>6. PanelTypes'
  BY <1>2, <1>3, <1>4, <1>5 DEF PanelTypes
<1>7. PictureFramed'
  BY <1>3 DEF PictureFramed
<1>8. PendingIsLast'
  BY <1>2, <1>3 DEF PendingIsLast, UnderWay, OfTheDraft
<1>9. EndsAreNews'
  <2> SUFFICES ASSUME slipped = {}
               PROVE  \A i \in DOMAIN saves :
                        /\ saves[i].stage \in {"sent", "landed"} => announced' = ""
                        /\ saves[i].stage = "settled" => i \in spoken
    BY <1>2 DEF EndsAreNews
  <2>1. draft.kind = "file" => \A i \in DOMAIN saves : ~UnderWay(i)
    BY <1>2, PendingAlone DEF OfTheDraft
  <2>2. \A i \in DOMAIN saves : saves[i].stage \in {"sent", "landed"} => UnderWay(i)
    BY DEF UnderWay
  <2> QED
    BY <1>2, <2>1, <2>2 DEF EndsAreNews
<1>10. NothingLost' /\ RowIsTheLast'
  BY <1>4 DEF NothingLost, RowIsTheLast
<1> QED
  BY <1>2, <1>6, <1>7, <1>8, <1>9, <1>10, PhotoKept

LEMMA ReframesStep ==
  ASSUME PhotoInv, NEW view \in [zoom : Int, x : Int, y : Int], Reframes(view)
  PROVE  PhotoInv'
<1> USE DEF PhotoInv
<1>1. draft \in DraftStates
  BY DEF PanelTypes
<1>2. /\ draft.kind = "file" /\ draft.state = "ready"
      /\ draft' = [draft EXCEPT !.view = ClampView(view, draft.image)]
      /\ UNCHANGED <<stored, cached, panel, shown, announced, saves, drafts, mishaps, spoken,
                     slipped, behind, shownOf, closedBy>>
  BY DEF Reframes
<1>3. draft.image \in Images
  BY <1>2 DEF PictureFramed
<1>4. ClampView(view, draft.image) \in ViewStates /\ Covers(ClampView(view, draft.image), draft.image)
  BY <1>3, ClampCovers
<1>5. /\ draft' \in DraftStates /\ draft'.kind = "file" /\ draft'.state = "ready"
      /\ draft'.image = draft.image /\ draft'.view = ClampView(view, draft.image)
  BY <1>1, <1>2, <1>4 DEF DraftStates
<1>6. PanelTypes'
  BY <1>2, <1>5 DEF PanelTypes
<1>7. PictureFramed'
  <2>1. Covers(draft'.view, draft'.image)
    BY <1>4, <1>5
  <2>2. Covers(draft'.view, draft'.image) <=> Covers(draft.view, draft.image)'
    BY DEF Covers, Displayed
  <2> QED
    BY <1>3, <1>5, <2>1, <2>2 DEF PictureFramed
<1>8. PendingIsLast'
  BY <1>2, <1>5 DEF PendingIsLast, UnderWay, OfTheDraft
<1> QED
  BY <1>2, <1>6, <1>7, <1>8, PhotoKept

LEMMA FramingSteps == ASSUME PhotoInv, DragsImage \/ ZoomsImage PROVE PhotoInv'
<1>1. draft.view \in ViewStates
  BY DEF PhotoInv, PanelTypes, DraftStates
<1>2. CASE DragsImage
  <2>1. PICK d \in Drags : Reframes([draft.view EXCEPT !.x = @ + d[1], !.y = @ + d[2]])
    BY <1>2 DEF DragsImage
  <2> DEFINE dx == d[1]
             dy == d[2]
  <2>2. dx \in Int /\ dy \in Int
    BY AvatarPanelAssumption
  <2> HIDE DEF dx, dy
  <2>3. draft.view \in [zoom : Int, x : Int, y : Int]
    BY <1>1 DEF ViewStates
  <2> DEFINE x == draft.view.x + dx
             y == draft.view.y + dy
  <2>4. x \in Int /\ y \in Int
    BY <2>2, <2>3
  <2>5. [draft.view EXCEPT !.x = @ + d[1], !.y = @ + d[2]] = [[draft.view EXCEPT !.x = x] EXCEPT !.y = y]
    BY <2>3 DEF dx, dy
  <2> HIDE DEF x, y
  <2>6. [[draft.view EXCEPT !.x = x] EXCEPT !.y = y] \in [zoom : Int, x : Int, y : Int]
    BY <2>3, <2>4
  <2> QED
    BY <2>1, <2>5, <2>6, ReframesStep
<1>3. CASE ZoomsImage
  <2>1. PICK z \in 1 .. MaxZoom : Reframes([draft.view EXCEPT !.zoom = z])
    BY <1>3 DEF ZoomsImage
  <2>2. [draft.view EXCEPT !.zoom = z] \in [zoom : Int, x : Int, y : Int]
    BY <1>1 DEF ViewStates
  <2> QED
    BY <2>1, <2>2, ReframesStep
<1> QED
  BY <1>2, <1>3

LEMMA HashArrivesStep == ASSUME PhotoInv, HashArrives PROVE PhotoInv'
<1> USE DEF PhotoInv
<1>1. /\ cached' = [hash |-> stored, asking |-> FALSE] /\ behind' = FALSE
      /\ UNCHANGED <<stored, panel, draft, shown, announced, saves, drafts, mishaps, spoken,
                     slipped, shownOf, closedBy>>
  BY DEF HashArrives
<1>2. cached' \in [hash : Photos \cup {"none", "unknown"}, asking : BOOLEAN] /\ cached'.hash = stored'
  BY <1>1 DEF PanelTypes
<1>3. PanelTypes'
  BY <1>1, <1>2 DEF PanelTypes
<1>4. RowIsSeen'
  BY <1>2 DEF RowIsSeen
<1> QED
  BY <1>1, <1>3, <1>4, PhotoKept

LEMMA ChangedElsewhereStep == ASSUME PhotoInv, ChangedElsewhere PROVE PhotoInv'
<1> USE DEF PhotoInv
<1>1. /\ mishaps < MaxMishaps /\ mishaps' = mishaps + 1
      /\ stored' \in {"none", "old"} /\ behind' = TRUE
      /\ UNCHANGED <<cached, panel, draft, shown, announced, saves, drafts, spoken, slipped, shownOf, closedBy>>
  BY DEF ChangedElsewhere, Mishap, shownVars
<1>2. mishaps' \in 0 .. MaxMishaps /\ mishaps' # 0
  BY <1>1, CountersFit DEF Mishap
<1>3. stored' \in Photos \cup {"none"} /\ behind' \in BOOLEAN
  BY <1>1 DEF Photos
<1>4. PanelTypes'
  BY <1>1, <1>2, <1>3 DEF PanelTypes
<1>5. NothingLost' /\ RowIsTheLast'
  BY <1>2 DEF NothingLost, RowIsTheLast
<1>6. RowIsSeen'
  BY <1>1 DEF RowIsSeen
<1> QED
  BY <1>1, <1>4, <1>5, <1>6, PhotoKept

LEMMA PressesSaveStep == ASSUME PhotoInv, PressesSave PROVE PhotoInv'
<1> USE DEF PhotoInv
<1> DEFINE crop == draft.kind = "file"
           stage == IF crop THEN "cropping" ELSE "sent"
           new == [kind |-> draft.kind, panel |-> panel, draft |-> drafts, answer |-> "", stage |-> stage,
                   followed |-> ~crop]
<1>0. PICK n : n = Len(saves) + 1
  OBVIOUS
<1>1. /\ panel # 0 /\ ~Saving
      /\ draft.kind \in Kinds /\ (crop => draft.state = "ready")
      /\ saves' = Append(saves, new)
      /\ announced' = (IF crop THEN announced ELSE "")
      /\ shown' = (IF crop THEN shown ELSE "")
      /\ slipped' = slipped \cup Cropping
      /\ UNCHANGED <<stored, cached, panel, draft, drafts, mishaps, spoken, behind, shownOf, closedBy>>
  BY DEF PressesSave, CanSave, OnStart, Blank, Kinds
<1>2. panel \in Nat /\ drafts \in Nat /\ 1 <= panel /\ panel <= drafts
  <2>1. panel \in Nat /\ panel # 0 /\ drafts \in Nat /\ panel <= drafts
    BY <1>1, CountersFit DEF PanelsNumbered
  <2> QED
    BY <2>1
<1>3. /\ new \in SaveStates /\ new.kind = draft.kind /\ new.panel = panel /\ new.draft = drafts
      /\ new.answer = "" /\ new.stage = stage /\ new.followed = ~crop
  BY <1>1, <1>2 DEF SaveStates, Stagings
<1> HIDE DEF new
<1>4. saves \in Seq(SaveStates)
  BY DEF PanelTypes
<1>5. /\ saves' \in Seq(SaveStates) /\ Len(saves') = n /\ DOMAIN saves' = DOMAIN saves \cup {n}
      /\ n \notin DOMAIN saves /\ (\A i \in DOMAIN saves : saves'[i] = saves[i]) /\ saves'[n] = new
      /\ Len(saves) \in Nat /\ DOMAIN saves = 1 .. Len(saves)
  <2>1. saves' = Append(saves, new) /\ new \in SaveStates
    BY <1>1, <1>3
  <2> QED
    BY <1>0, <1>4, <2>1
<1>6. slipped \subseteq slipped' /\ slipped' \subseteq DOMAIN saves /\ n \notin slipped'
  BY <1>1, <1>5 DEF PanelTypes, Cropping
<1>7. PanelTypes'
  <2>1. shownOf' \in 0 .. Len(saves') /\ closedBy' \in [save : 0 .. Len(saves'), draft : Nat]
    <3>1. shownOf \in 0 .. Len(saves) /\ closedBy \in [save : 0 .. Len(saves), draft : Nat]
      BY DEF PanelTypes
    <3>2. 0 .. Len(saves) \subseteq 0 .. n
      BY <1>5
    <3> QED
      BY <1>1, <1>5, <3>1, <3>2
  <2>2. slipped' \in SUBSET DOMAIN saves' /\ spoken' \in SUBSET DOMAIN saves'
    BY <1>1, <1>5, <1>6 DEF PanelTypes
  <2>3. shown' \in Codes \cup {""} /\ announced' \in Codes \cup {"", "updated", "removed"}
    BY <1>1 DEF PanelTypes
  <2> QED
    BY <1>1, <1>5, <2>1, <2>2, <2>3 DEF PanelTypes
<1>8. PanelsNumbered'
  BY <1>1, <1>2, <1>3, <1>5 DEF PanelsNumbered
<1>9. \A i \in DOMAIN saves : UnderWay(i) /\ i \notin slipped' => saves[i].panel # panel
  BY <1>1, SavingWhileInFlight
<1>10. PendingIsLast'
  <2>1. OfTheDraft(n)'
    BY <1>1, <1>3, <1>5 DEF OfTheDraft
  <2>2. \A i \in DOMAIN saves : UnderWay(i)' <=> UnderWay(i)
    BY <1>5 DEF UnderWay
  <2>3. \A i \in DOMAIN saves : UnderWay(i)' /\ i \notin slipped' =>
          saves'[i].panel # panel' /\ \E k \in slipped' : k < i
    <3> SUFFICES ASSUME NEW i \in DOMAIN saves, UnderWay(i)', i \notin slipped'
                 PROVE  saves'[i].panel # panel' /\ \E k \in slipped' : k < i
      OBVIOUS
    <3>1. UnderWay(i) /\ i \notin slipped /\ saves[i].panel # panel
      BY <1>6, <1>9, <2>2
    <3>2. \E k \in slipped : k < i
      BY <3>1 DEF PendingIsLast
    <3> QED
      BY <1>1, <1>5, <1>6, <3>1, <3>2
  <2>4. saves'[n].panel = panel'
    BY <1>1, <1>3, <1>5
  <2> QED
    BY <1>5, <2>1, <2>3, <2>4 DEF PendingIsLast
<1>11. EndsAreNews'
  <2> SUFFICES ASSUME slipped' = {}, NEW i \in DOMAIN saves'
               PROVE  /\ saves'[i].stage \in {"sent", "landed"} => announced' = ""
                      /\ saves'[i].stage = "settled" => i \in spoken
    BY <1>1 DEF EndsAreNews
  <2>1. slipped = {}
    BY <1>6
  <2>2. CASE i \in DOMAIN saves
    BY <1>1, <1>5, <2>1, <2>2 DEF EndsAreNews
  <2>3. CASE i = n
    <3>1. saves'[i].stage = stage
      BY <1>3, <1>5, <2>3
    <3> QED
      BY <1>1, <3>1
  <2> QED
    BY <1>5, <2>2, <2>3
<1>12. MessageHasASave'
  BY <1>1, <1>5, <1>6 DEF MessageHasASave
<1>13. ClosedByItsSave'
  BY <1>1, <1>5, <1>6 DEF ClosedByItsSave
<1>14. RowIsSeen'
  <2> SUFFICES ASSUME ~cached.asking, ~behind, cached.hash # stored
               PROVE  \E i \in DOMAIN saves' : saves'[i].stage = "landed" /\ saves'[i].answer = ""
    BY <1>1, Zenon DEF RowIsSeen
  <2>1. PICK i \in DOMAIN saves : saves[i].stage = "landed" /\ saves[i].answer = ""
    BY DEF RowIsSeen
  <2> QED
    BY <1>5, <2>1
<1>15. NothingLost'
  <2>1. stage # "dropped"
    OBVIOUS
  <2> HIDE DEF stage
  <2> QED
    BY <1>1, <1>3, <1>5, <2>1 DEF NothingLost
<1>16. RowIsTheLast'
  <2>1. saves'[n].stage \notin {"landed", "settled"}
    BY <1>3, <1>5
  <2> QED
    BY <1>5, <2>1 DEF RowIsTheLast
<1>17. AnsweredOnceLanded'
  BY <1>3, <1>5 DEF AnsweredOnceLanded
<1>18. LastIsFollowed'
  <2>1. saves'[n].stage \in {"sent", "landed"} => saves'[n].followed
    BY <1>3, <1>5
  <2>2. \A i \in DOMAIN saves : i \notin slipped' => i \notin slipped
    BY <1>6
  <2> QED
    BY <1>5, <2>1, <2>2 DEF LastIsFollowed
<1> QED
  BY <1>18, <1>1, <1>7, <1>8, <1>10, <1>11, <1>12, <1>13, <1>14, <1>15, <1>16, <1>17, PhotoKept

\* What became of save i, and of no other.
Turned(i, stage, answer) ==
  /\ saves' \in Seq(SaveStates) /\ Len(saves') = Len(saves) /\ DOMAIN saves' = DOMAIN saves
  /\ \A j \in DOMAIN saves :
       /\ saves'[j].panel = saves[j].panel /\ saves'[j].draft = saves[j].draft
       /\ saves'[j].kind = saves[j].kind
       /\ j # i => saves'[j].stage = saves[j].stage /\ saves'[j].answer = saves[j].answer
  /\ saves'[i].stage = stage /\ saves'[i].answer = answer

LEMMA SavesPut ==
  ASSUME NEW s \in Seq(SaveStates), NEW x \in SaveStates, NEW i \in DOMAIN s,
         NEW t, t = [s EXCEPT ![i] = x]
  PROVE  /\ t \in Seq(SaveStates) /\ Len(t) = Len(s) /\ DOMAIN t = DOMAIN s
         /\ \A j \in DOMAIN s : t[j] = IF j = i THEN x ELSE s[j]
  OBVIOUS

LEMMA Turns ==
  ASSUME PhotoInv, NEW i \in DOMAIN saves, NEW stage \in Stagings, NEW answer \in Codes \cup {""},
         \/ saves' = [saves EXCEPT ![i].stage = stage, ![i].answer = answer]
         \/ saves' = [saves EXCEPT ![i].stage = stage] /\ answer = saves[i].answer
  PROVE  /\ Turned(i, stage, answer)
         /\ \A j \in DOMAIN saves : saves'[j].followed = saves[j].followed
<1>1. saves \in Seq(SaveStates) /\ saves[i] \in SaveStates
  BY SaveFits DEF PhotoInv, PanelTypes
<1> DEFINE new == [[saves[i] EXCEPT !.stage = stage] EXCEPT !.answer = answer]
<1>2. /\ new \in SaveStates /\ new.stage = stage /\ new.answer = answer
      /\ new.kind = saves[i].kind /\ new.panel = saves[i].panel /\ new.draft = saves[i].draft
      /\ new.followed = saves[i].followed
  BY <1>1 DEF SaveStates
<1>3. saves' = [saves EXCEPT ![i] = new]
  <2>1. CASE saves' = [saves EXCEPT ![i].stage = stage, ![i].answer = answer]
    BY <1>1, <2>1
  <2>2. CASE saves' = [saves EXCEPT ![i].stage = stage] /\ answer = saves[i].answer
    <3>1. new = [saves[i] EXCEPT !.stage = stage]
      BY <1>1, <2>2 DEF SaveStates
    <3> QED
      BY <2>2, <3>1
  <2> QED
    BY <2>1, <2>2
<1> HIDE DEF new
<1>4. /\ saves' \in Seq(SaveStates) /\ Len(saves') = Len(saves) /\ DOMAIN saves' = DOMAIN saves
      /\ \A j \in DOMAIN saves : saves'[j] = IF j = i THEN new ELSE saves[j]
  <2>1. saves \in Seq(SaveStates) /\ new \in SaveStates /\ i \in DOMAIN saves
    BY <1>1, <1>2
  <2> QED
    BY <1>3, <2>1, SavesPut
<1> QED
  BY <1>2, <1>4 DEF Turned

\* While a save goes on as it went, or ends, what was under way is the last press still.
LEMMA TurnKept ==
  ASSUME PhotoInv, NEW i \in DOMAIN saves, NEW stage, NEW answer, Turned(i, stage, answer), UnderWay(i)
  PROVE  /\ UNCHANGED <<panel, drafts>> => PanelsNumbered'
         /\ UNCHANGED <<panel, draft, drafts>> /\ slipped \subseteq slipped' => PendingIsLast'
         /\ UNCHANGED <<shown, shownOf, drafts>> /\ slipped \subseteq slipped' => MessageHasASave'
         /\ UNCHANGED closedBy /\ slipped \subseteq slipped' => ClosedByItsSave'
         /\ \/ stage \in {"landed", "settled"}
            \/ saves[i].stage \notin {"landed", "settled"} /\ answer = saves[i].answer
            => AnsweredOnceLanded'
<1> USE DEF PhotoInv
<1>1. UNCHANGED <<panel, drafts>> => PanelsNumbered'
  BY DEF PanelsNumbered, Turned
<1>2. \A j \in DOMAIN saves : UnderWay(j)' => UnderWay(j)
  BY DEF UnderWay, Turned
<1>3. UNCHANGED <<panel, draft, drafts>> /\ slipped \subseteq slipped' => PendingIsLast'
  <2> SUFFICES ASSUME UNCHANGED <<panel, draft, drafts>>, slipped \subseteq slipped'
               PROVE  PendingIsLast'
    OBVIOUS
  <2>1. \A j \in DOMAIN saves : OfTheDraft(j) => OfTheDraft(j)'
    BY DEF OfTheDraft, Turned
  <2> QED
    BY <1>2, <2>1 DEF PendingIsLast, Turned
<1>4. UNCHANGED <<shown, shownOf, drafts>> /\ slipped \subseteq slipped' => MessageHasASave'
  BY DEF MessageHasASave, Turned
<1>5. UNCHANGED closedBy /\ slipped \subseteq slipped' => ClosedByItsSave'
  BY DEF ClosedByItsSave, Turned
<1>7. \/ stage \in {"landed", "settled"}
      \/ saves[i].stage \notin {"landed", "settled"} /\ answer = saves[i].answer
      => AnsweredOnceLanded'
  BY DEF AnsweredOnceLanded, Turned
<1> QED
  BY <1>1, <1>3, <1>4, <1>5, <1>7

LEMMA TurnFollows ==
  ASSUME PhotoInv, NEW i \in DOMAIN saves, NEW stage, NEW answer, Turned(i, stage, answer),
         \A j \in DOMAIN saves : saves'[j].followed = saves[j].followed, UNCHANGED slipped,
         stage \in {"sent", "landed"} => saves[i].stage \in {"sent", "landed"}
  PROVE  LastIsFollowed'
BY DEF PhotoInv, LastIsFollowed, Turned

\* An upload begins, and what was in flight of its panel is followed no more.
LEMMA UploadTurns ==
  ASSUME PhotoInv, NEW i \in DOMAIN saves, saves[i].stage = "cropping", saves' = Uploads(i)
  PROVE  /\ Turned(i, "sent", saves[i].answer) /\ saves'[i].followed
         /\ \A j \in DOMAIN saves : j = i \/ j \in Overtaken(i) \/ saves'[j] = saves[j]
<1> DEFINE began == [[saves[i] EXCEPT !.stage = "sent"] EXCEPT !.followed = TRUE]
           left(j) == [saves[j] EXCEPT !.followed = FALSE]
           next(j) == IF j = i THEN began ELSE IF j \in Overtaken(i) THEN left(j) ELSE saves[j]
<1>1. \A j \in DOMAIN saves : saves[j] \in SaveStates
  BY SaveFits DEF PhotoInv
<1>2. /\ began \in SaveStates /\ began.stage = "sent" /\ began.followed = TRUE
      /\ began.answer = saves[i].answer /\ began.kind = saves[i].kind
      /\ began.panel = saves[i].panel /\ began.draft = saves[i].draft
  BY <1>1 DEF SaveStates, Stagings
<1>3. \A j \in DOMAIN saves :
        /\ left(j) \in SaveStates /\ left(j).stage = saves[j].stage
        /\ left(j).answer = saves[j].answer /\ left(j).kind = saves[j].kind
        /\ left(j).panel = saves[j].panel /\ left(j).draft = saves[j].draft
  BY <1>1 DEF SaveStates
<1>4. saves' = [j \in DOMAIN saves |-> next(j)]
  <2>1. began = [saves[i] EXCEPT !.stage = "sent", !.followed = TRUE]
    BY <1>1 DEF SaveStates
  <2> QED
    BY <2>1 DEF Uploads
<1> HIDE DEF began, left
<1>5. \A j \in DOMAIN saves : next(j) \in SaveStates
  BY <1>1, <1>2, <1>3
<1>6. \A j \in DOMAIN saves : saves'[j] = next(j)
  BY <1>4
<1> HIDE DEF next
<1>7. saves' \in Seq(SaveStates) /\ Len(saves') = Len(saves) /\ DOMAIN saves' = DOMAIN saves
  <2>1. saves \in Seq(SaveStates)
    BY DEF PhotoInv, PanelTypes
  <2>2. Len(saves) \in Nat /\ DOMAIN saves = 1 .. Len(saves)
    BY <2>1
  <2>3. saves' \in [1 .. Len(saves) -> SaveStates]
    BY <1>4, <1>5, <2>2
  <2> QED
    BY <2>2, <2>3
<1>8. saves'[i] = began
  BY <1>6 DEF next
<1>9. \A j \in DOMAIN saves :
        \/ j = i
        \/ j \in Overtaken(i) /\ saves'[j] = left(j)
        \/ saves'[j] = saves[j]
  BY <1>6 DEF next
<1>10. \A j \in DOMAIN saves :
         /\ saves'[j].panel = saves[j].panel /\ saves'[j].draft = saves[j].draft
         /\ saves'[j].kind = saves[j].kind
         /\ j # i => saves'[j].stage = saves[j].stage /\ saves'[j].answer = saves[j].answer
  BY <1>2, <1>3, <1>8, <1>9
<1> QED
  BY <1>2, <1>7, <1>8, <1>9, <1>10 DEF Turned

LEMMA TurnKeepsNews ==
  ASSUME PhotoInv, NEW i \in DOMAIN saves, NEW stage, Turned(i, stage, saves[i].answer),
         mishaps' = mishaps, stage \in {"sent", "landed", "settled"}
  PROVE  NothingLost'
<1> SUFFICES ASSUME mishaps = 0, NEW j \in DOMAIN saves
             PROVE  saves'[j].answer = "" /\ saves'[j].stage # "dropped"
  BY DEF NothingLost, Turned
<1>1. saves[j].answer = "" /\ saves[j].stage # "dropped"
  BY DEF PhotoInv, NothingLost
<1>2. stage # "dropped"
  OBVIOUS
<1> QED
  BY <1>1, <1>2 DEF Turned

LEMMA TurnTypes ==
  ASSUME PhotoInv, NEW i \in DOMAIN saves, NEW stage, NEW answer, Turned(i, stage, answer)
  PROVE  /\ spoken \in SUBSET DOMAIN saves' /\ slipped \in SUBSET DOMAIN saves'
         /\ spoken \cup {i} \in SUBSET DOMAIN saves'
         /\ shownOf \in 0 .. Len(saves') /\ closedBy \in [save : 0 .. Len(saves'), draft : Nat]
         /\ i \in 0 .. Len(saves') /\ saves' \in Seq(SaveStates) /\ i # 0
<1>1. saves' \in Seq(SaveStates) /\ Len(saves') = Len(saves) /\ DOMAIN saves' = DOMAIN saves
  BY DEF Turned
<1>2. saves \in Seq(SaveStates)
  BY DEF PhotoInv, PanelTypes
<1>3. i \in 0 .. Len(saves) /\ i # 0
  BY <1>2
<1> QED
  BY <1>1, <1>3 DEF PhotoInv, PanelTypes

\* An answer that says nothing went wrong is told otherwise than by a blank.
LEMMA AnswersAreSaid ==
  \A i \in DOMAIN saves : PanelTypes =>
    /\ Said(i) \in Codes \cup {"updated", "removed"} /\ Said(i) # ""
    /\ saves[i].answer # "" => Said(i) \in Codes
<1> SUFFICES ASSUME NEW i \in DOMAIN saves, PanelTypes
             PROVE  /\ Said(i) \in Codes \cup {"updated", "removed"} /\ Said(i) # ""
                    /\ saves[i].answer # "" => Said(i) \in Codes
  OBVIOUS
<1>1. saves[i].answer \in Codes \cup {""}
  BY SaveFits
<1>2. saves[i].answer # "" => saves[i].answer \in Codes
  BY <1>1
<1>3. "" \notin Codes
  BY DEF Codes
<1> QED
  BY <1>2, <1>3 DEF Said

LEMMA CropEndsStep == ASSUME PhotoInv, NEW i \in DOMAIN saves, CropEnds(i) PROVE PhotoInv'
<1> USE DEF PhotoInv
<1>1. /\ saves[i].stage = "cropping"
      /\ UNCHANGED <<stored, cached, panel, draft, drafts, spoken, behind, closedBy>>
  BY DEF CropEnds, Cropping
<1>2. UnderWay(i) /\ saves[i].answer \in Codes \cup {""}
  BY <1>1, SaveFits DEF UnderWay
<1>3. \A j \in DOMAIN saves : slipped = {} /\ saves[j].stage \in {"sent", "landed"} => FALSE
  BY <1>1, <1>2, PendingAlone DEF UnderWay
<1>4. CASE /\ saves' = Uploads(i) /\ announced' = "" /\ slipped' = slipped \cup Overtaken(i)
           /\ shown' = (IF saves[i].panel = panel THEN "" ELSE shown)
           /\ UNCHANGED <<mishaps, shownOf>>
  <2>1. /\ Turned(i, "sent", saves[i].answer) /\ saves'[i].followed
        /\ \A j \in DOMAIN saves : j = i \/ j \in Overtaken(i) \/ saves'[j] = saves[j]
    BY <1>1, <1>4, UploadTurns
  <2>0. slipped \subseteq slipped' /\ slipped' \in SUBSET DOMAIN saves'
    BY <1>4, <2>1 DEF PanelTypes, Overtaken, InFlight, Turned
  <2>2. PanelTypes'
    BY <1>1, <1>4, <2>0, <2>1, TurnTypes DEF PanelTypes
  <2>3. MessageHasASave'
    BY <1>1, <1>2, <1>4, <2>0, <2>1, TurnKept, PhotoKept
  <2>4. EndsAreNews'
    BY <1>1, <1>4, <2>0, <2>1 DEF EndsAreNews, Turned
  <2>5. RowIsSeen'
    <3> SUFFICES ASSUME ~cached.asking, ~behind, cached.hash # stored
                 PROVE  \E j \in DOMAIN saves' : saves'[j].stage = "landed" /\ saves'[j].answer = ""
      BY <1>1, Zenon DEF RowIsSeen
    <3>1. PICK j \in DOMAIN saves : saves[j].stage = "landed" /\ saves[j].answer = ""
      BY DEF RowIsSeen
    <3> QED
      BY <1>1, <2>1, <3>1 DEF Turned
  <2>6. NothingLost'
    BY <1>2, <1>4, <2>1, TurnKeepsNews
  <2>7. RowIsTheLast'
    <3> SUFFICES ASSUME slipped = {}, NEW j \in DOMAIN saves, j = Len(saves)
                 PROVE  saves'[j].stage \notin {"landed", "settled"}
      BY <1>1, <2>0, <2>1 DEF RowIsTheLast, Turned
    <3>1. j = i
      BY <1>2, PendingAlone
    <3> QED
      BY <2>1, <3>1 DEF Turned
  <2>8. LastIsFollowed'
    <3> SUFFICES ASSUME NEW j \in DOMAIN saves, saves'[j].stage \in {"sent", "landed"}, j \notin slipped'
                 PROVE  saves'[j].followed
      BY <2>1 DEF LastIsFollowed, Turned
    <3>1. j = i \/ (saves'[j] = saves[j] /\ j \notin slipped)
      BY <1>4, <2>0, <2>1
    <3> QED
      BY <2>1, <3>1 DEF LastIsFollowed
  <2>9. AnsweredOnceLanded' /\ PendingIsLast' /\ ClosedByItsSave' /\ PanelsNumbered'
    BY <1>1, <1>2, <2>0, <2>1, TurnKept
  <2> QED
    BY <2>8, <2>9, <1>1, <1>2, <2>1, <2>2, <2>3, <2>4, <2>5, <2>6, <2>7, PhotoKept
<1>5. CASE /\ Mishap /\ saves' = Stage(i, "dropped") /\ announced' = "wrong"
           /\ IF saves[i].panel = panel THEN shown' = "wrong" /\ shownOf' = i
              ELSE UNCHANGED <<shown, shownOf>>
           /\ UNCHANGED slipped
  <2>1. /\ Turned(i, "dropped", saves[i].answer)
        /\ \A j \in DOMAIN saves : saves'[j].followed = saves[j].followed
    BY <1>2, <1>5, Turns DEF Stage, Stagings
  <2>2. mishaps' \in 0 .. MaxMishaps /\ mishaps' # 0
    BY <1>5, CountersFit
  <2>3. PanelTypes'
    <3>1. shown' \in Codes \cup {""} /\ announced' \in Codes \cup {"", "updated", "removed"}
      BY <1>5 DEF PanelTypes, Codes
    <3>2. shownOf' \in 0 .. Len(saves')
      BY <1>5, <2>1, TurnTypes
    <3> QED
      BY <1>1, <1>5, <2>1, <2>2, <3>1, <3>2, TurnTypes DEF PanelTypes
  <2>4. MessageHasASave'
    <3>1. CASE saves[i].panel = panel
      <4>1. saves[i].draft = drafts \/ i \in slipped
        BY <1>2, <3>1 DEF PendingIsLast, OfTheDraft
      <4>2. shownOf' = i
        BY <1>5, <3>1
      <4> QED
        BY <1>1, <1>5, <2>1, <4>1, <4>2 DEF MessageHasASave, Turned
    <3>2. CASE saves[i].panel # panel
      BY <1>1, <1>2, <1>5, <2>1, <3>2, TurnKept
    <3> QED
      BY <3>1, <3>2
  <2>5. EndsAreNews'
    BY <1>1, <1>3, <1>5, <2>1 DEF EndsAreNews, Turned
  <2>6. RowIsSeen'
    <3> SUFFICES ASSUME ~cached.asking, ~behind, cached.hash # stored
                 PROVE  \E j \in DOMAIN saves' : saves'[j].stage = "landed" /\ saves'[j].answer = ""
      BY <1>1, Zenon DEF RowIsSeen
    <3>1. PICK j \in DOMAIN saves : saves[j].stage = "landed" /\ saves[j].answer = ""
      BY DEF RowIsSeen
    <3> QED
      BY <1>1, <2>1, <3>1 DEF Turned
  <2>7. NothingLost' /\ RowIsTheLast'
    BY <2>2 DEF NothingLost, RowIsTheLast
  <2>8. LastIsFollowed'
    BY <1>5, <2>1, TurnFollows
  <2> QED
    BY <2>8, <1>1, <1>2, <1>5, <2>1, <2>3, <2>4, <2>5, <2>6, <2>7, TurnKept, PhotoKept
<1> QED
  BY <1>4, <1>5 DEF CropEnds, OnStart, Blank

\* The row is written, or is not.
LEMMA LandsStep == ASSUME PhotoInv, NEW i \in DOMAIN saves, Lands(i) PROVE PhotoInv'
<1> USE DEF PhotoInv
<1>1. /\ saves[i].stage = "sent"
      /\ UNCHANGED <<cached, panel, draft, shown, announced, drafts, spoken, slipped, behind, shownOf, closedBy>>
  BY DEF Lands, shownVars
<1>2. UnderWay(i) /\ saves[i].answer \in Codes \cup {""} /\ saves[i].kind \in Kinds
  BY <1>1, SaveFits DEF UnderWay
<1>3. ASSUME NEW answer \in Codes \cup {""}, Turned(i, "landed", answer),
             \A j \in DOMAIN saves : saves'[j].followed = saves[j].followed
      PROVE  /\ EndsAreNews' /\ PendingIsLast' /\ MessageHasASave' /\ ClosedByItsSave'
             /\ PanelsNumbered' /\ PictureFramed' /\ AnsweredOnceLanded' /\ LastIsFollowed'
  <2>1. EndsAreNews'
    BY <1>1, <1>3 DEF EndsAreNews, Turned
  <2>2. LastIsFollowed'
    BY <1>1, <1>3, TurnFollows
  <2> QED
    BY <2>2, <1>1, <1>2, <1>3, <2>1, TurnKept, PhotoKept
<1>4. CASE stored' = Row(saves[i].kind) /\ saves' = Stage(i, "landed") /\ UNCHANGED mishaps
  <2>1. /\ Turned(i, "landed", saves[i].answer)
        /\ \A j \in DOMAIN saves : saves'[j].followed = saves[j].followed
    BY <1>2, <1>4, Turns DEF Stage, Stagings
  <2>2. stored' \in Photos \cup {"none"}
    BY <1>2, <1>4 DEF Row, Kinds, Photos
  <2>3. PanelTypes'
    BY <1>1, <1>4, <2>1, <2>2, TurnTypes DEF PanelTypes
  <2>4. NothingLost'
    BY <1>2, <1>4, <2>1, TurnKeepsNews
  <2>5. RowIsTheLast'
    <3> SUFFICES ASSUME slipped = {}, NEW j \in DOMAIN saves, j = Len(saves) PROVE stored' = Row(saves'[j].kind)
      BY <1>1, <2>1 DEF RowIsTheLast, Turned
    <3>1. j = i
      BY <1>2, PendingAlone
    <3> QED
      BY <1>4, <2>1, <3>1 DEF Turned
  <2>6. RowIsSeen'
    <3>1. saves'[i].stage = "landed" /\ saves'[i].answer = saves[i].answer /\ i \in DOMAIN saves'
      BY <2>1 DEF Turned
    <3>2. saves[i].answer = ""
      BY <1>1 DEF AnsweredOnceLanded
    <3> QED
      BY <3>1, <3>2 DEF RowIsSeen
  <2> QED
    BY <1>2, <1>3, <2>1, <2>3, <2>4, <2>5, <2>6
<1>5. CASE /\ Mishap /\ UNCHANGED stored
           /\ \E code \in Refusals(saves[i].kind) :
                saves' = [saves EXCEPT ![i].stage = "landed", ![i].answer = code]
  <2>1. PICK code \in Codes : saves' = [saves EXCEPT ![i].stage = "landed", ![i].answer = code]
    BY <1>2, <1>5 DEF Refusals, Kinds, Codes
  <2>2. /\ Turned(i, "landed", code)
        /\ \A j \in DOMAIN saves : saves'[j].followed = saves[j].followed
    BY <2>1, Turns DEF Stagings
  <2>3. mishaps' \in 0 .. MaxMishaps /\ mishaps' # 0
    BY <1>5, CountersFit
  <2>4. PanelTypes'
    BY <1>1, <1>5, <2>2, <2>3, TurnTypes DEF PanelTypes
  <2>5. NothingLost' /\ RowIsTheLast'
    BY <2>3 DEF NothingLost, RowIsTheLast
  <2>6. RowIsSeen'
    <3> SUFFICES ASSUME ~cached.asking, ~behind, cached.hash # stored
                 PROVE  \E j \in DOMAIN saves' : saves'[j].stage = "landed" /\ saves'[j].answer = ""
      BY <1>1, <1>5, Zenon DEF RowIsSeen
    <3>1. PICK j \in DOMAIN saves : saves[j].stage = "landed" /\ saves[j].answer = ""
      BY DEF RowIsSeen
    <3> QED
      BY <1>1, <2>2, <3>1 DEF Turned
  <2> QED
    BY <1>3, <2>2, <2>4, <2>5, <2>6
<1> QED
  BY <1>4, <1>5 DEF Lands

LEMMA SaveFailsStep == ASSUME PhotoInv, NEW i \in DOMAIN saves, SaveFails(i) PROVE PhotoInv'
<1> USE DEF PhotoInv
<1>1. /\ saves[i].stage \in {"sent", "landed"} /\ Mishap
      /\ saves' = [saves EXCEPT ![i].stage = "landed", ![i].answer = "wrong"]
      /\ behind' = (behind \/ saves[i].stage = "landed")
      /\ UNCHANGED <<stored, cached, panel, draft, shown, announced, drafts, spoken, slipped, shownOf, closedBy>>
  BY DEF SaveFails, InFlight, shownVars
<1>2. UnderWay(i)
  BY <1>1 DEF UnderWay
<1>3. /\ Turned(i, "landed", "wrong")
      /\ \A j \in DOMAIN saves : saves'[j].followed = saves[j].followed
  BY <1>1, Turns DEF Stagings, Codes
<1>4. mishaps' \in 0 .. MaxMishaps /\ mishaps' # 0 /\ behind' \in BOOLEAN
  BY <1>1, CountersFit
<1>5. PanelTypes'
  BY <1>1, <1>3, <1>4, TurnTypes DEF PanelTypes
<1>6. EndsAreNews'
  BY <1>1, <1>3 DEF EndsAreNews, Turned
<1>7. NothingLost' /\ RowIsTheLast'
  BY <1>4 DEF NothingLost, RowIsTheLast
<1>8. RowIsSeen'
  <2> SUFFICES ASSUME ~cached.asking, ~behind, saves[i].stage # "landed", cached.hash # stored
               PROVE  \E j \in DOMAIN saves' : saves'[j].stage = "landed" /\ saves'[j].answer = ""
    BY <1>1, Zenon DEF RowIsSeen
  <2>1. PICK j \in DOMAIN saves : saves[j].stage = "landed" /\ saves[j].answer = ""
    BY DEF RowIsSeen
  <2> QED
    BY <1>3, <2>1 DEF Turned
<1>9. LastIsFollowed'
  BY <1>1, <1>3, TurnFollows
<1> QED
  BY <1>9, <1>1, <1>2, <1>3, <1>5, <1>6, <1>7, <1>8, TurnKept, PhotoKept

LEMMA SaveSettlesStep == ASSUME PhotoInv, NEW i \in DOMAIN saves, SaveSettles(i) PROVE PhotoInv'
<1> USE DEF PhotoInv
<1>1. /\ saves[i].stage = "landed" /\ saves' = Stage(i, "settled")
      /\ announced' = Said(i)
      /\ spoken' = (IF announced # Said(i) THEN spoken \cup {i} ELSE spoken)
      /\ UNCHANGED <<stored, drafts, mishaps, slipped, behind>>
  BY DEF SaveSettles
<1>2. UnderWay(i) /\ saves[i].answer \in Codes \cup {""}
  BY <1>1, SaveFits DEF UnderWay
<1>3. /\ Turned(i, "settled", saves[i].answer)
      /\ \A j \in DOMAIN saves : saves'[j].followed = saves[j].followed
  BY <1>1, <1>2, Turns DEF Stage, Stagings
<1>11. LastIsFollowed'
  BY <1>1, <1>3, TurnFollows
<1>4. /\ Said(i) \in Codes \cup {"updated", "removed"} /\ Said(i) # ""
      /\ saves[i].answer # "" => Said(i) \in Codes
  BY AnswersAreSaid
<1>5. announced' \in Codes \cup {"", "updated", "removed"} /\ spoken' \in SUBSET DOMAIN saves'
  BY <1>1, <1>3, <1>4, TurnTypes
<1>6. EndsAreNews'
  <2> SUFFICES ASSUME slipped = {}, NEW j \in DOMAIN saves
               PROVE  /\ saves'[j].stage \notin {"sent", "landed"}
                      /\ saves'[j].stage = "settled" => j \in spoken'
    BY <1>1, <1>3 DEF EndsAreNews, Turned
  <2>1. announced = ""
    BY <1>1 DEF EndsAreNews
  <2>2. spoken' = spoken \cup {i}
    BY <1>1, <1>4, <2>1
  <2>3. CASE j = i
    BY <1>3, <2>2, <2>3 DEF Turned
  <2>4. CASE j # i
    <3>1. ~UnderWay(j)
      BY <1>2, <2>4, PendingAlone
    <3>2. saves'[j].stage = saves[j].stage
      BY <1>3, <2>4 DEF Turned
    <3> QED
      BY <2>2, <3>1, <3>2 DEF UnderWay, EndsAreNews
  <2> QED
    BY <2>3, <2>4
<1>7. NothingLost'
  BY <1>1, <1>2, <1>3, TurnKeepsNews
<1>8. RowIsTheLast'
  BY <1>1, <1>3 DEF RowIsTheLast, Turned
<1>9. CASE saves[i].answer = ""
  <2>1. /\ cached' = [cached EXCEPT !.asking = TRUE] /\ Unmounts /\ UNCHANGED shownOf
        /\ closedBy' = IF panel # 0 THEN [save |-> i, draft |-> drafts] ELSE closedBy
    BY <1>9 DEF SaveSettles
  <2>2. cached' \in [hash : Photos \cup {"none", "unknown"}, asking : BOOLEAN] /\ cached'.asking
    BY <2>1 DEF PanelTypes
  <2>3. /\ draft' \in DraftStates /\ panel' = 0 /\ panel' \in Nat /\ shown' = ""
        /\ PictureFramed' /\ MessageHasASave'
    BY <2>1, UnmountFits
  <2>4. closedBy' \in [save : 0 .. Len(saves'), draft : Nat]
    <3>1. drafts \in Nat
      BY CountersFit
    <3> QED
      BY <1>3, <2>1, <3>1, TurnTypes
  <2>5. PanelTypes'
    BY <1>1, <1>3, <1>5, <2>1, <2>2, <2>3, <2>4, TurnTypes DEF PanelTypes
  <2>6. \A j \in DOMAIN saves : saves[j].panel \in Nat /\ 1 <= saves[j].panel /\ saves[j].panel <= drafts
    BY SaveFits DEF PanelsNumbered
  <2>7. PanelsNumbered'
    <3>1. 0 <= drafts
      BY CountersFit
    <3> QED
      BY <1>1, <1>3, <2>3, <2>6, <3>1 DEF PanelsNumbered, Turned
  <2>8. saves[i].draft = drafts \/ \E k \in slipped : k <= i
    <3>1. i \in Nat
      BY <1>3, TurnTypes
    <3>2. i \in slipped => i <= i
      BY <3>1
    <3>3. slipped \subseteq Nat
      <4>1. saves \in Seq(SaveStates) /\ slipped \subseteq DOMAIN saves
        BY DEF PanelTypes
      <4> QED
        BY <4>1
    <3>4. \A k \in slipped : k < i => k <= i
      BY <3>1, <3>3
    <3> QED
      BY <1>2, <3>2, <3>4 DEF PendingIsLast, OfTheDraft
  <2>9. PendingIsLast'
    <3> SUFFICES ASSUME NEW j \in DOMAIN saves, UnderWay(j)', j \notin slipped
                 PROVE  saves'[j].panel # panel' /\ \E k \in slipped : k < j
      BY <1>1, <1>3 DEF PendingIsLast, Turned
    <3>1. j # i /\ UnderWay(j)
      BY <1>3 DEF Turned, UnderWay
    <3>2. saves'[j].panel # panel'
      <4> DEFINE q == saves[j].panel
      <4>1. q \in Nat /\ 1 <= q
        BY <2>6
      <4> HIDE DEF q
      <4>2. q # 0
        BY <4>1
      <4> QED
        BY <1>3, <2>3, <4>2 DEF q, Turned
    <3>3. CASE saves[j].panel # panel
      BY <3>1, <3>2, <3>3 DEF PendingIsLast
    <3>4. CASE saves[j].panel = panel
      <4>1. j = Len(saves)
        BY <3>1, <3>4 DEF PendingIsLast, OfTheDraft
      <4>2. i < j
        <5>1. saves \in Seq(SaveStates)
          BY DEF PanelTypes
        <5>2. i \in Nat /\ j \in Nat /\ i <= Len(saves)
          BY <5>1
        <5> QED
          BY <3>1, <4>1, <5>2
      <4>3. i \in slipped \/ \E k \in slipped : k < i
        <5>1. i # Len(saves)
          BY <3>1, <4>1
        <5> QED
          BY <1>2, <5>1 DEF PendingIsLast, OfTheDraft
      <4>4. slipped \subseteq Nat /\ i \in Nat /\ j \in Nat
        <5>1. saves \in Seq(SaveStates) /\ slipped \subseteq DOMAIN saves
          BY DEF PanelTypes
        <5> QED
          BY <5>1
      <4>5. \A k \in slipped : k < i => k < j
        BY <4>2, <4>4
      <4> QED
        BY <3>2, <4>2, <4>3, <4>5
    <3> QED
      BY <3>2, <3>3, <3>4
  <2>10. ClosedByItsSave'
    <3>1. CASE panel # 0
      <4>1. closedBy'.save = i /\ closedBy'.draft = drafts /\ i \in DOMAIN saves'
        BY <1>3, <2>1, <3>1 DEF Turned
      <4>2. saves[i].draft = drafts \/ \E k \in slipped : k <= i
        BY <2>8
      <4> QED
        BY <1>1, <1>3, <4>1, <4>2 DEF ClosedByItsSave, Turned
    <3>2. CASE panel = 0
      BY <1>1, <1>2, <1>3, <2>1, <3>2, TurnKept
    <3> QED
      BY <3>1, <3>2
  <2> QED
    BY <1>11, <1>1, <1>2, <1>3, <1>6, <1>7, <1>8, <2>2, <2>3, <2>5, <2>7, <2>9, <2>10, TurnKept, PhotoKept
<1>10. CASE saves[i].answer # ""
  <2>1. /\ UNCHANGED <<cached, panel, draft, closedBy>>
        /\ IF saves[i].panel = panel THEN shown' = Said(i) /\ shownOf' = i
           ELSE UNCHANGED <<shown, shownOf>>
    BY <1>10 DEF SaveSettles
  <2>2. PanelTypes'
    <3>1. shown' \in Codes \cup {""}
      BY <1>4, <1>10, <2>1 DEF PanelTypes
    <3>2. shownOf' \in 0 .. Len(saves')
      BY <1>3, <2>1, TurnTypes
    <3> QED
      BY <1>1, <1>3, <1>5, <2>1, <3>1, <3>2, TurnTypes DEF PanelTypes
  <2>3. MessageHasASave'
    <3>1. CASE saves[i].panel = panel
      <4>1. saves[i].draft = drafts \/ i \in slipped
        BY <1>2, <3>1 DEF PendingIsLast, OfTheDraft
      <4>2. shownOf' = i
        BY <2>1, <3>1
      <4> QED
        BY <1>1, <1>3, <4>1, <4>2 DEF MessageHasASave, Turned
    <3>2. CASE saves[i].panel # panel
      BY <1>1, <1>2, <1>3, <2>1, <3>2, TurnKept
    <3> QED
      BY <3>1, <3>2
  <2>4. RowIsSeen'
    <3> SUFFICES ASSUME ~cached.asking, ~behind, cached.hash # stored
                 PROVE  \E j \in DOMAIN saves' : saves'[j].stage = "landed" /\ saves'[j].answer = ""
      BY <1>1, <2>1, Zenon DEF RowIsSeen
    <3>1. PICK j \in DOMAIN saves : saves[j].stage = "landed" /\ saves[j].answer = ""
      BY DEF RowIsSeen
    <3> QED
      BY <1>3, <1>10, <3>1 DEF Turned
  <2> QED
    BY <1>11, <1>1, <1>2, <1>3, <1>6, <1>7, <1>8, <2>1, <2>2, <2>3, <2>4, TurnKept, PhotoKept
<1> QED
  BY <1>9, <1>10

LEMMA PhotoStep == PhotoInv /\ [AvatarPanelNext]_panelVars => PhotoInv'
<1> SUFFICES ASSUME PhotoInv, [AvatarPanelNext]_panelVars PROVE PhotoInv'
  OBVIOUS
<1>1. CASE PicksFile \/ PicksProvider \/ PicksRemoval
  BY <1>1, StagesStep DEF PicksFile, PicksProvider, PicksRemoval, Kinds
<1>2. CASE UNCHANGED panelVars
  <2>1. /\ UNCHANGED <<stored, cached, panel, draft, shown, announced, saves, drafts, mishaps>>
        /\ UNCHANGED <<spoken, slipped, behind, shownOf, closedBy>>
    BY <1>2 DEF panelVars, shownVars
  <2>2. PanelTypes'
    BY <2>1 DEF PhotoInv, PanelTypes
  <2> QED
    BY <2>1, <2>2, PhotoKept DEF PhotoInv
<1> QED
  BY <1>1, <1>2, OpensPanelStep, ClosesStep, ImageLoadsStep, PreviewBreaksStep, FramingSteps,
     PressesSaveStep, HashArrivesStep, ChangedElsewhereStep, CropEndsStep, LandsStep,
     SaveFailsStep, SaveSettlesStep DEF AvatarPanelNext

-----------------------------------------------------------------------------
\* The tag field.

\* Every set of numbers has a least one, which makes proofs by induction out of proofs by
\* contradiction.
LEMMA LeastNat ==
  ASSUME NEW S \in SUBSET Nat, S # {}
  PROVE  \E n \in S : \A m \in S : n <= m
<1>1. PICK n \in S : \A m \in S : ~(<<m, n>> \in OpToRel(<, Nat))
  BY NatLessThanWellFounded, WFMin, Zenon
<1>2. \A m \in S : ~(m < n)
  BY <1>1 DEF OpToRel
<1> QED
  BY <1>2

\* The first n of what was found, less the viewer's own tag, by the function that computes it.
RestOf(found, F, n) ==
  F = [k \in 0 .. n |-> IF k = 0 THEN <<>>
                        ELSE IF found[k] = OwnTag THEN F[k - 1] ELSE Append(F[k - 1], found[k])]
Others == {s \in Seq(TagTexts) : \A i \in DOMAIN s : s[i] # OwnTag}

LEMMA OthersGrow ==
  \A s \in Others, tag \in TagTexts : tag # OwnTag => Append(s, tag) \in Others
<1> SUFFICES ASSUME NEW s \in Others, NEW tag \in TagTexts, tag # OwnTag
             PROVE  Append(s, tag) \in Others
  OBVIOUS
<1>1. s \in Seq(TagTexts) /\ \A i \in DOMAIN s : s[i] # OwnTag
  BY DEF Others
<1>2. /\ Append(s, tag) \in Seq(TagTexts) /\ Len(Append(s, tag)) = Len(s) + 1
      /\ \A i \in 1 .. Len(s) : Append(s, tag)[i] = s[i]
      /\ Append(s, tag)[Len(s) + 1] = tag
  BY <1>1
<1>3. \A i \in 1 .. Len(s) + 1 : Append(s, tag)[i] # OwnTag
  BY <1>1, <1>2
<1>4. DOMAIN Append(s, tag) = 1 .. Len(s) + 1
  BY <1>2
<1> HIDE DEF Others
<1> QED
  BY <1>2, <1>3, <1>4 DEF Others

LEMMA RestsExist ==
  ASSUME NEW found \in Seq(TagTexts)
  PROVE  \E F : RestOf(found, F, Len(found))
<1> DEFINE Bad == {n \in 0 .. Len(found) : ~ \E F : RestOf(found, F, n)}
<1>0. Len(found) \in 0 .. Len(found)
  OBVIOUS
<1> SUFFICES ASSUME Bad # {} PROVE FALSE
  BY <1>0
<1>1. Bad \in SUBSET Nat
  OBVIOUS
<1>2. PICK n \in Bad : \A m \in Bad : n <= m
  BY <1>1, LeastNat
<1>3. n \in 0 .. Len(found) /\ ~ \E F : RestOf(found, F, n)
  BY <1>2
<1>4. CASE n = 0
  <2>1. RestOf(found, [k \in 0 .. 0 |-> <<>>], 0)
    BY DEF RestOf
  <2> QED
    BY <1>3, <1>4, <2>1
<1>5. CASE n # 0
  <2>1. n - 1 \in 0 .. Len(found) /\ ~(n <= n - 1)
    BY <1>3, <1>5
  <2>2. PICK F : RestOf(found, F, n - 1)
    BY <1>2, <2>1
  <2> DEFINE G == [k \in 0 .. n |->
                     IF k = n THEN IF found[n] = OwnTag THEN F[n - 1] ELSE Append(F[n - 1], found[n])
                     ELSE F[k]]
  <2>3. \A k \in 0 .. n - 1 : G[k] = F[k]
    BY <1>3
  <2>4. \A k \in 0 .. n - 1 :
          F[k] = IF k = 0 THEN <<>>
                 ELSE IF found[k] = OwnTag THEN F[k - 1] ELSE Append(F[k - 1], found[k])
    BY <2>2 DEF RestOf
  <2>5. \A k \in 0 .. n :
          G[k] = IF k = 0 THEN <<>>
                 ELSE IF found[k] = OwnTag THEN G[k - 1] ELSE Append(G[k - 1], found[k])
    <3> TAKE k \in 0 .. n
    <3>1. CASE k = n
      <4>1. G[n - 1] = F[n - 1]
        BY <1>3, <1>5, <2>3
      <4> QED
        BY <3>1, <4>1, <1>5
    <3>2. CASE k # n /\ k # 0
      <4>1. k \in 0 .. n - 1 /\ k - 1 \in 0 .. n - 1
        BY <1>3, <3>2
      <4> HIDE DEF G
      <4> QED
        BY <3>2, <4>1, <2>3, <2>4
    <3>3. CASE k # n /\ k = 0
      <4>1. k \in 0 .. n - 1
        BY <1>3, <3>3
      <4> HIDE DEF G
      <4> QED
        BY <3>3, <4>1, <2>3, <2>4
    <3> QED
      BY <3>1, <3>2, <3>3
  <2>6. G = [k \in 0 .. n |-> G[k]]
    OBVIOUS
  <2> HIDE DEF G
  <2>7. RestOf(found, G, n)
    BY <2>5, <2>6 DEF RestOf
  <2> QED
    BY <1>3, <2>7
<1> QED
  BY <1>4, <1>5

LEMMA RestsAreOthers ==
  ASSUME NEW found \in Seq(TagTexts), NEW F, RestOf(found, F, Len(found))
  PROVE  F[Len(found)] \in Others
<1> DEFINE Bad == {n \in 0 .. Len(found) : F[n] \notin Others}
<1>0. Len(found) \in 0 .. Len(found)
  OBVIOUS
<1> SUFFICES ASSUME Bad # {} PROVE FALSE
  BY <1>0
<1>1. Bad \in SUBSET Nat
  OBVIOUS
<1>2. PICK n \in Bad : \A m \in Bad : n <= m
  BY <1>1, LeastNat
<1>3. n \in 0 .. Len(found) /\ F[n] \notin Others
  BY <1>2
<1>4. F[n] = IF n = 0 THEN <<>>
             ELSE IF found[n] = OwnTag THEN F[n - 1] ELSE Append(F[n - 1], found[n])
  BY <1>3 DEF RestOf
<1>5. n # 0
  BY <1>3, <1>4 DEF Others
<1>6. F[n - 1] \in Others
  <2>1. n - 1 \in 0 .. Len(found) /\ ~(n <= n - 1)
    BY <1>3, <1>5
  <2> QED
    BY <1>2, <2>1
<1>7. found[n] \in TagTexts
  BY <1>3, <1>5
<1> QED
  BY <1>3, <1>4, <1>5, <1>6, <1>7, OthersGrow

\* What is suggested are texts other than the viewer's own tag.
LEMMA SuggestedAreOthers == \A t \in DOMAIN MatchesOf : Suggested(t) \in Others
<1> TAKE t \in DOMAIN MatchesOf
<1>1. MatchesOf[t] \in Seq(TagTexts)
  BY TagFieldAssumption
<1> DEFINE Rest == CHOOSE F : RestOf(MatchesOf[t], F, Len(MatchesOf[t]))
<1>2. RestOf(MatchesOf[t], Rest, Len(MatchesOf[t]))
  BY <1>1, RestsExist
<1>3. Suggested(t) = Rest[Len(MatchesOf[t])]
  BY DEF Suggested, RestOf
<1> QED
  BY <1>1, <1>2, <1>3, RestsAreOthers

SearchStates == [text : TagTexts, is : {"out", "in", "failed"}, seq : Nat]
ListStates == [options : Others, open : BOOLEAN, lit : Nat]
FieldTypes ==
  /\ text \in TagTexts /\ timer \in BOOLEAN /\ skip \in BOOLEAN /\ searched \in BOOLEAN
  /\ strayed \in BOOLEAN /\ searches \in Seq(SearchStates) /\ list \in ListStates
  /\ claim \in [text : TagTexts, is : {"none", "sent", "refused"}]
  /\ keys \in 0 .. MaxKeys /\ searchErrors \in 0 .. MaxSearchErrors

\* Searches have numbers of their own, the last of which may have been given out since to
\* a pick.
SearchesNumbered ==
  /\ seq \in Nat /\ seq <= Len(searches) + keys /\ Len(searches) <= MaxSearches
  /\ \A i \in DOMAIN searches : searches[i].seq <= seq
  /\ \A i, j \in DOMAIN searches : searches[i].seq = searches[j].seq => i = j

\* A search that is due, or whose answer is still wanted, is for the text in the field; once
\* none is, what was found last is what the text finds.
SearchesOfTheText ==
  /\ timer => Searchable(text)
  /\ ~timer /\ ~strayed =>
       /\ \A i \in Out : Latest(i) => Searchable(text) /\ searches[i].text = text
       /\ searched /\ (\A i \in Out : ~Latest(i)) =>
            Searchable(text) /\ list.options = Suggested(text)
  /\ \A i \in DOMAIN searches : Searchable(searches[i].text)

ListMarked ==
  /\ ~searched => list.options = <<>>
  /\ list.lit <= Len(list.options)
  /\ list.open \/ list.lit > 0 => list.options # <<>>

FieldInv == FieldTypes /\ SearchesNumbered /\ SearchesOfTheText /\ ListMarked

LEMMA SearchFits ==
  FieldTypes => \A i \in DOMAIN searches :
                  /\ searches[i] \in SearchStates /\ searches[i].seq \in Nat
                  /\ searches[i].text \in TagTexts /\ searches[i].is \in {"out", "in", "failed"}
<1> SUFFICES ASSUME FieldTypes, NEW i \in DOMAIN searches
             PROVE  /\ searches[i] \in SearchStates /\ searches[i].seq \in Nat
                    /\ searches[i].text \in TagTexts
                    /\ searches[i].is \in {"out", "in", "failed"}
  OBVIOUS
<1>1. searches[i] \in SearchStates
  BY DEF FieldTypes
<1> QED
  BY <1>1 DEF SearchStates

LEMMA FieldIsThen == FieldInv => FieldIsInOrder
<1> SUFFICES ASSUME FieldInv PROVE FieldIsInOrder
  OBVIOUS
<1>1. list.options \in Others /\ list.lit \in Nat
  BY DEF FieldInv, FieldTypes, ListStates
<1>2. list.options \in Seq(TagTexts) /\ \A i \in DOMAIN list.options : list.options[i] # OwnTag
  BY <1>1 DEF Others
<1>3. seq \in 0 .. MaxSearches + MaxKeys
  <2>1. Len(searches) \in Nat /\ keys \in 0 .. MaxKeys
    BY DEF FieldInv, FieldTypes
  <2>2. MaxSearches \in Nat /\ MaxKeys \in Nat
    BY TagFieldAssumption
  <2> QED
    BY <2>1, <2>2 DEF FieldInv, SearchesNumbered
<1>4. \A i \in DOMAIN searches : searches[i].is \in {"out", "in", "failed"}
  BY SearchFits DEF FieldInv
<1>5. TagFieldTypeOK
  BY <1>3, <1>4 DEF FieldInv, FieldTypes, TagFieldTypeOK
<1>6. SuggestedForTheText
  <2>1. CASE searched
    BY <2>1 DEF FieldInv, SearchesOfTheText, SuggestedForTheText
  <2>2. CASE ~searched
    BY <2>2 DEF FieldInv, ListMarked, SuggestedForTheText
  <2> QED
    BY <2>1, <2>2
<1>7. ListIsWhole
  <2>1. list.lit \in 0 .. Len(list.options)
    BY <1>1, <1>2 DEF FieldInv, ListMarked
  <2>2. list.options # <<>> => searched
    BY DEF FieldInv, ListMarked
  <2>3. list.open \/ list.lit > 0 => list.options # <<>>
    BY DEF FieldInv, ListMarked
  <2> QED
    BY <1>2, <2>1, <2>2, <2>3 DEF ListIsWhole
<1> QED
  BY <1>5, <1>6, <1>7 DEF FieldIsInOrder

LEMMA NoListFits == NoList \in ListStates /\ NoList.options = <<>> /\ NoList.lit = 0 /\ NoList.open = FALSE
  BY DEF NoList, ListStates, Others

LEMMA FieldInitInv == TagFieldInit => FieldInv
<1> SUFFICES ASSUME TagFieldInit PROVE FieldInv
  OBVIOUS
<1>1. /\ text \in TagTexts /\ timer = FALSE /\ searches = <<>> /\ seq = 0 /\ skip = FALSE
      /\ list = NoList /\ searched = FALSE /\ strayed = FALSE
  BY DEF TagFieldInit
<1>2. keys = 0 /\ searchErrors = 0 /\ claim = [text |-> text, is |-> "none"]
  BY DEF TagFieldInit
<1>3. FieldTypes
  <2>1. keys \in 0 .. MaxKeys /\ searchErrors \in 0 .. MaxSearchErrors
    BY <1>2, TagFieldAssumption
  <2>2. claim \in [text : TagTexts, is : {"none", "sent", "refused"}]
    BY <1>1, <1>2
  <2>3. searches \in Seq(SearchStates) /\ list \in ListStates
    BY <1>1, NoListFits
  <2> QED
    BY <1>1, <2>1, <2>2, <2>3 DEF FieldTypes
<1>4. SearchesNumbered
  <2>1. Len(searches) = 0 /\ DOMAIN searches = {}
    BY <1>1
  <2> QED
    BY <1>1, <1>2, <2>1, TagFieldAssumption DEF SearchesNumbered
<1>5. SearchesOfTheText
  BY <1>1 DEF SearchesOfTheText, Out
<1>6. ListMarked
  <2>1. list.options = <<>> /\ list.lit = 0 /\ list.open = FALSE
    BY <1>1, NoListFits
  <2>2. Len(list.options) = 0
    BY <2>1
  <2> QED
    BY <2>1, <2>2 DEF ListMarked
<1> QED
  BY <1>3, <1>4, <1>5, <1>6 DEF FieldInv

LEMMA FieldKept ==
  /\ ListMarked /\ UNCHANGED <<list, searched>> => ListMarked'
  /\ SearchesNumbered /\ UNCHANGED <<seq, searches, keys>> => SearchesNumbered'
  /\ SearchesOfTheText /\ UNCHANGED <<timer, text, strayed, searches, searched, list, seq>> =>
       SearchesOfTheText'
  BY DEF ListMarked, SearchesNumbered, SearchesOfTheText, Out, Latest

LEMMA TypesTagStep ==
  ASSUME FieldInv, NEW t \in TagTexts, TypesTag(t) PROVE FieldInv'
<1> USE DEF FieldInv
<1>1. /\ t # text /\ keys < MaxKeys /\ keys' = keys + 1 /\ TextBecomes(t)
      /\ strayed' = (skip \/ (strayed /\ Out # {}) \/ (~Searchable(t) /\ Out # {}))
      /\ UNCHANGED <<searches, seq, claim, searchErrors>>
  BY DEF TypesTag
<1>2. /\ text' = t
      /\ \/ skip /\ skip' = FALSE /\ timer' = FALSE /\ UNCHANGED <<list, searched>>
         \/ ~skip /\ Searchable(t) /\ timer' = TRUE /\ UNCHANGED <<skip, list, searched>>
         \/ /\ ~skip /\ ~Searchable(t) /\ timer' = FALSE /\ list' = NoList /\ searched' = FALSE
            /\ UNCHANGED skip
  BY <1>1 DEF TextBecomes
<1>3. FieldTypes'
  <2>1. keys' \in 0 .. MaxKeys
    BY <1>1, TagFieldAssumption DEF FieldTypes
  <2>2. list' \in ListStates
    BY <1>2, NoListFits DEF FieldTypes
  <2>3. timer' \in BOOLEAN /\ skip' \in BOOLEAN /\ searched' \in BOOLEAN
    BY <1>2 DEF FieldTypes
  <2>4. strayed' \in BOOLEAN
    BY <1>1
  <2>5. text' \in TagTexts
    BY <1>2
  <2> QED
    BY <1>1, <2>1, <2>2, <2>3, <2>4, <2>5 DEF FieldTypes
<1>4. SearchesNumbered'
  <2>1. Len(searches) \in Nat /\ keys \in Nat /\ seq \in Nat /\ seq <= Len(searches) + keys
    BY DEF FieldTypes, SearchesNumbered
  <2>2. seq <= Len(searches) + (keys + 1)
    BY <2>1
  <2> QED
    BY <1>1, <2>2 DEF SearchesNumbered
<1>5. SearchesOfTheText'
  <2>1. CASE skip
    BY <1>1, <1>2, <2>1 DEF SearchesOfTheText
  <2>2. CASE ~skip /\ Searchable(t)
    BY <1>1, <1>2, <2>2 DEF SearchesOfTheText
  <2>3. CASE ~skip /\ ~Searchable(t)
    <3>1. searched' = FALSE /\ timer' = FALSE /\ (~strayed' => Out = {}) /\ Out' = Out
      BY <1>1, <1>2, <2>3 DEF Out
    <3> QED
      BY <1>1, <3>1 DEF SearchesOfTheText
  <2> QED
    BY <2>1, <2>2, <2>3
<1>6. ListMarked'
  <2>1. CASE UNCHANGED <<list, searched>>
    BY <2>1, FieldKept
  <2>2. CASE list' = NoList /\ searched' = FALSE
    <3>1. list'.options = <<>> /\ list'.lit = 0 /\ list'.open = FALSE /\ Len(<<>>) = 0
      BY <2>2, NoListFits
    <3> QED
      BY <2>2, <3>1 DEF ListMarked
  <2> QED
    BY <1>2, <2>1, <2>2
<1> QED
  BY <1>3, <1>4, <1>5, <1>6

LEMMA StartsSearchStep == ASSUME FieldInv, StartsSearch PROVE FieldInv'
<1> USE DEF FieldInv
<1> DEFINE new == [text |-> text, is |-> "out", seq |-> seq + 1]
<1>1. /\ timer /\ Len(searches) < MaxSearches /\ timer' = FALSE /\ seq' = seq + 1
      /\ searches' = Append(searches, new)
      /\ UNCHANGED <<text, skip, list, searched, claim, keys, searchErrors, strayed>>
  BY DEF StartsSearch
<1>2. searches \in Seq(SearchStates) /\ seq \in Nat /\ new \in SearchStates
  BY DEF FieldTypes, SearchesNumbered, SearchStates
<1>3. new.seq = seq + 1 /\ new.text = text /\ new.is = "out"
  OBVIOUS
<1> HIDE DEF new
<1>4. /\ searches' \in Seq(SearchStates) /\ Len(searches') = Len(searches) + 1
      /\ DOMAIN searches' = DOMAIN searches \cup {Len(searches) + 1}
      /\ Len(searches) + 1 \notin DOMAIN searches
      /\ \A i \in DOMAIN searches : searches'[i] = searches[i]
      /\ searches'[Len(searches) + 1] = new
  BY <1>1, <1>2
<1>5. FieldTypes'
  BY <1>1, <1>4 DEF FieldTypes
<1>6. \A i \in DOMAIN searches : searches[i].seq \in Nat /\ searches[i].seq <= seq
  BY SearchFits DEF SearchesNumbered
<1>7. SearchesNumbered'
  <2>1. keys \in Nat /\ Len(searches) \in Nat /\ MaxSearches \in Nat
    BY TagFieldAssumption DEF FieldTypes
  <2>2. seq' \in Nat /\ seq' <= Len(searches') + keys' /\ Len(searches') <= MaxSearches
    BY <1>1, <1>2, <1>4, <2>1 DEF SearchesNumbered
  <2>3. \A i \in DOMAIN searches' : searches'[i].seq <= seq'
    BY <1>1, <1>2, <1>3, <1>4, <1>6
  <2>4. \A i \in DOMAIN searches : searches[i].seq # seq + 1
    BY <1>2, <1>6
  <2>5. \A i, j \in DOMAIN searches' : searches'[i].seq = searches'[j].seq => i = j
    BY <1>3, <1>4, <2>4 DEF SearchesNumbered
  <2> QED
    BY <2>2, <2>3, <2>5 DEF SearchesNumbered
<1>8. SearchesOfTheText'
  <2>1. Searchable(text)
    BY <1>1 DEF SearchesOfTheText
  <2>2. \A i \in DOMAIN searches' : searches'[i].seq = seq + 1 => i = Len(searches) + 1
    BY <1>2, <1>4, <1>6
  <2>3. \E i \in Out' : Latest(i)'
    <3> DEFINE last == Len(searches) + 1
    <3>1. last \in DOMAIN searches' /\ searches'[last].is = "out" /\ searches'[last].seq = seq'
      BY <1>1, <1>3, <1>4
    <3> HIDE DEF last
    <3> QED
      BY <3>1 DEF Out, Latest
  <2>4. \A i \in Out' : Latest(i)' => searches'[i].text = text'
    <3> SUFFICES ASSUME NEW i \in Out', Latest(i)' PROVE searches'[i].text = text'
      OBVIOUS
    <3>1. i \in DOMAIN searches' /\ searches'[i].seq = seq + 1
      BY <1>1 DEF Out, Latest
    <3>2. i = Len(searches) + 1
      BY <2>2, <3>1
    <3> QED
      BY <1>1, <1>3, <1>4, <3>2
  <2>5. \A i \in DOMAIN searches' : Searchable(searches'[i].text)
    BY <1>3, <1>4, <2>1 DEF SearchesOfTheText
  <2>6. timer' = FALSE /\ Searchable(text')
    BY <1>1, <2>1 DEF Searchable
  <2> QED
    BY <2>3, <2>4, <2>5, <2>6 DEF SearchesOfTheText
<1> QED
  BY <1>1, <1>5, <1>7, <1>8, FieldKept

LEMMA ShowsFits ==
  ASSUME NEW options \in Others, NEW done \in BOOLEAN, Shows(options, done), done \/ options = <<>>
  PROVE  /\ list' \in ListStates /\ list'.options = options /\ searched' = done
         /\ ListMarked'
<1>1. list' = [options |-> options, open |-> options # <<>>, lit |-> 0] /\ searched' = done
  BY DEF Shows
<1>2. /\ list' \in ListStates /\ list'.options = options /\ list'.lit = 0
      /\ list'.open = (options # <<>>)
  BY <1>1 DEF ListStates
<1>3. 0 <= Len(options) /\ ~(0 > 0)
  BY DEF Others
<1>4. list'.open => options # <<>>
  BY <1>2
<1> QED
  BY <1>1, <1>2, <1>3, <1>4 DEF ListMarked

LEMMA SearchAnsweredStep ==
  ASSUME FieldInv, NEW i \in DOMAIN searches, SearchAnswered(i) PROVE FieldInv'
<1> USE DEF FieldInv
<1>1. PICK is \in {"in", "failed"} :
        /\ i \in Out /\ searches' = [searches EXCEPT ![i].is = is]
        /\ \/ /\ is = "in" /\ UNCHANGED searchErrors
              /\ IF Latest(i) THEN Shows(Suggested(searches[i].text), TRUE)
                 ELSE UNCHANGED <<list, searched>>
           \/ /\ is = "failed" /\ searchErrors < MaxSearchErrors /\ searchErrors' = searchErrors + 1
              /\ IF Latest(i) THEN Shows(<<>>, FALSE) ELSE UNCHANGED <<list, searched>>
        /\ UNCHANGED <<text, timer, seq, skip, claim, keys, strayed>>
  BY DEF SearchAnswered, Wanted
<1>2. searches \in Seq(SearchStates) /\ searches[i] \in SearchStates
  BY SearchFits DEF FieldTypes
<1> DEFINE new == [searches[i] EXCEPT !.is = is]
<1>3. new \in SearchStates /\ new.is = is /\ new.text = searches[i].text /\ new.seq = searches[i].seq
  BY <1>2 DEF SearchStates
<1>4. searches' = [searches EXCEPT ![i] = new]
  BY <1>1
<1> HIDE DEF new
<1>5. /\ searches' \in Seq(SearchStates) /\ Len(searches') = Len(searches)
      /\ DOMAIN searches' = DOMAIN searches
      /\ \A j \in DOMAIN searches : searches'[j] = IF j = i THEN new ELSE searches[j]
  BY <1>2, <1>3, <1>4
<1>6. \A j \in DOMAIN searches : searches'[j].text = searches[j].text /\ searches'[j].seq = searches[j].seq
  BY <1>3, <1>5
<1>7. Out' \subseteq Out /\ i \notin Out' /\ (\A j \in Out : j # i => j \in Out')
  BY <1>3, <1>5 DEF Out
<1>8. searchErrors' \in 0 .. MaxSearchErrors
  <2>1. \/ searchErrors' = searchErrors
        \/ searchErrors < MaxSearchErrors /\ searchErrors' = searchErrors + 1
    BY <1>1
  <2>2. searchErrors \in 0 .. MaxSearchErrors /\ MaxSearchErrors \in Nat
    BY TagFieldAssumption DEF FieldTypes
  <2> QED
    BY <2>1, <2>2
<1>9. SearchesNumbered'
  BY <1>1, <1>5, <1>6 DEF SearchesNumbered
<1>10. \A j \in Out : j # i => ~(Latest(i) /\ Latest(j))
  BY DEF Latest, SearchesNumbered, Out
<1>11. \A j \in Out : Latest(j)' <=> Latest(j)
  BY <1>1, <1>6 DEF Latest, Out
<1>12. Searchable(searches[i].text)
  BY DEF SearchesOfTheText
<1>13. \A j \in DOMAIN searches' : Searchable(searches'[j].text)
  BY <1>5, <1>6 DEF SearchesOfTheText
<1>14. ~timer' /\ ~strayed' => \A j \in Out' : Latest(j)' => Searchable(text') /\ searches'[j].text = text'
  <2> SUFFICES ASSUME ~timer', ~strayed', NEW j \in Out', Latest(j)'
               PROVE  Searchable(text') /\ searches'[j].text = text'
    OBVIOUS
  <2>1. j \in Out /\ Latest(j) /\ ~timer /\ ~strayed
    BY <1>1, <1>7, <1>11
  <2> QED
    BY <1>1, <1>6, <2>1 DEF SearchesOfTheText, Out
<1>15. CASE ~Latest(i)
  <2>1. UNCHANGED <<list, searched>>
    BY <1>1, <1>15
  <2>2. (\A j \in Out' : ~Latest(j)') => \A j \in Out : ~Latest(j)
    BY <1>7, <1>11, <1>15
  <2>3. SearchesOfTheText'
    BY <1>1, <1>13, <1>14, <2>1, <2>2 DEF SearchesOfTheText
  <2>4. FieldTypes'
    BY <1>1, <1>5, <1>8, <2>1 DEF FieldTypes
  <2> QED
    BY <1>9, <2>1, <2>3, <2>4, FieldKept
<1>16. CASE Latest(i)
  <2>1. ~timer /\ ~strayed => Searchable(text) /\ searches[i].text = text
    BY <1>1, <1>16 DEF SearchesOfTheText
  <2>2. CASE is = "in"
    <3>1. Suggested(searches[i].text) \in Others
      BY <1>12, SuggestedAreOthers DEF Searchable
    <3>2. Shows(Suggested(searches[i].text), TRUE)
      BY <1>1, <1>16, <2>2
    <3>3. /\ list' \in ListStates /\ list'.options = Suggested(searches[i].text) /\ searched' = TRUE
          /\ ListMarked'
      BY <3>1, <3>2, ShowsFits
    <3>4. SearchesOfTheText'
      BY <1>1, <1>13, <1>14, <2>1, <3>3 DEF SearchesOfTheText
    <3>5. FieldTypes'
      BY <1>1, <1>5, <1>8, <3>3 DEF FieldTypes
    <3> QED
      BY <1>9, <3>3, <3>4, <3>5
  <2>3. CASE is = "failed"
    <3>1. Shows(<<>>, FALSE)
      BY <1>1, <1>16, <2>3
    <3>2. <<>> \in Others
      BY DEF Others
    <3>3. list' \in ListStates /\ searched' = FALSE /\ ListMarked'
      BY <3>1, <3>2, ShowsFits
    <3>4. SearchesOfTheText'
      BY <1>1, <1>13, <1>14, <3>3 DEF SearchesOfTheText
    <3>5. FieldTypes'
      BY <1>1, <1>5, <1>8, <3>3 DEF FieldTypes
    <3> QED
      BY <1>9, <3>3, <3>4, <3>5
  <2> QED
    BY <1>1, <2>2, <2>3
<1> QED
  BY <1>15, <1>16

LEMMA ArrowStep == ASSUME FieldInv, NEW step \in {1, -1}, Arrow(step) PROVE FieldInv'
<1> USE DEF FieldInv
<1> DEFINE n == Len(list.options)
           lit == IF step = 1 THEN (list.lit % n) + 1 ELSE IF list.lit <= 1 THEN n ELSE list.lit - 1
<1>1. /\ list.options # <<>> /\ list' = [[list EXCEPT !.open = TRUE] EXCEPT !.lit = lit]
      /\ UNCHANGED <<text, timer, searches, seq, skip, searched, claim, keys, searchErrors, strayed>>
  <2>1. list \in ListStates
    BY DEF FieldTypes
  <2> QED
    BY <2>1 DEF Arrow, ListStates
<1>2. list \in ListStates /\ list.options \in Seq(TagTexts) /\ list.lit \in Nat
  BY DEF FieldTypes, ListStates, Others
<1>3. n \in Nat /\ n > 0
  BY <1>1, <1>2
<1>4. lit \in 1 .. n
  <2>1. list.lit % n \in 0 .. n - 1
    BY <1>2, <1>3
  <2>2. list.lit <= n
    BY DEF ListMarked
  <2> HIDE DEF n
  <2>3. (list.lit % n) + 1 \in 1 .. n
    BY <1>3, <2>1
  <2>4. ~(list.lit <= 1) => list.lit - 1 \in 1 .. n
    BY <1>2, <1>3, <2>2
  <2> QED
    BY <1>3, <2>3, <2>4
<1> HIDE DEF lit
<1>5. lit \in Nat /\ lit <= n
  BY <1>3, <1>4
<1>6. list' \in ListStates /\ list'.options = list.options /\ list'.lit = lit
  BY <1>1, <1>2, <1>5 DEF ListStates
<1>7. FieldTypes'
  BY <1>1, <1>6 DEF FieldTypes
<1>8. ListMarked'
  BY <1>1, <1>5, <1>6 DEF ListMarked
<1>9. SearchesOfTheText'
  BY <1>1, <1>6 DEF SearchesOfTheText, Out, Latest
<1> QED
  BY <1>1, <1>7, <1>8, <1>9, FieldKept

LEMMA EscapesListStep == ASSUME FieldInv, EscapesList PROVE FieldInv'
<1> USE DEF FieldInv
<1>1. list \in ListStates
  BY DEF FieldTypes
<1>2. /\ list' = [[list EXCEPT !.open = FALSE] EXCEPT !.lit = 0]
      /\ UNCHANGED <<text, timer, searches, seq, skip, searched, claim, keys, searchErrors, strayed>>
  BY <1>1 DEF EscapesList, ListStates
<1>3. list' \in ListStates /\ list'.options = list.options /\ list'.lit = 0 /\ list'.open = FALSE
  BY <1>1, <1>2 DEF ListStates
<1>4. Len(list.options) \in Nat
  BY <1>1 DEF ListStates, Others
<1>5. FieldTypes'
  BY <1>2, <1>3 DEF FieldTypes
<1>6. ListMarked'
  BY <1>2, <1>3, <1>4 DEF ListMarked
<1>7. SearchesOfTheText'
  BY <1>2, <1>3 DEF SearchesOfTheText, Out, Latest
<1> QED
  BY <1>2, <1>5, <1>6, <1>7, FieldKept

LEMMA PicksTagStep == ASSUME FieldInv, NEW t \in TagTexts, PicksTag(t) PROVE FieldInv'
<1> USE DEF FieldInv
<1>1. /\ keys < MaxKeys /\ keys' = keys + 1
      /\ seq' = seq + 1 /\ list' = NoList /\ searched' = FALSE
      /\ text' = t /\ skip' = (t = text) /\ timer' = (timer /\ t = text)
      /\ strayed' = (t = text)
      /\ UNCHANGED <<searches, claim, searchErrors>>
  BY DEF PicksTag
<1>2. seq \in Nat /\ keys \in Nat /\ Len(searches) \in Nat /\ seq <= Len(searches) + keys
  BY DEF FieldTypes, SearchesNumbered
<1>3. FieldTypes'
  <2>1. keys' \in 0 .. MaxKeys
    BY <1>1, TagFieldAssumption DEF FieldTypes
  <2>2. list' \in ListStates
    BY <1>1, NoListFits
  <2>3. timer' \in BOOLEAN /\ skip' \in BOOLEAN /\ searched' \in BOOLEAN /\ strayed' \in BOOLEAN
    BY <1>1
  <2> QED
    BY <1>1, <2>1, <2>2, <2>3 DEF FieldTypes
<1>4. \A i \in DOMAIN searches : searches[i].seq \in Nat /\ searches[i].seq <= seq
  BY SearchFits DEF SearchesNumbered
<1>5. SearchesNumbered'
  <2>1. seq + 1 \in Nat /\ seq + 1 <= Len(searches) + (keys + 1)
    BY <1>2
  <2>2. \A i \in DOMAIN searches : searches[i].seq <= seq + 1
    BY <1>2, <1>4
  <2> QED
    BY <1>1, <2>1, <2>2 DEF SearchesNumbered
<1>6. SearchesOfTheText'
  <2>1. \A i \in Out' : ~Latest(i)'
    <3> SUFFICES ASSUME NEW i \in Out' PROVE searches'[i].seq # seq'
      BY DEF Latest
    <3>1. i \in DOMAIN searches /\ searches'[i].seq = searches[i].seq
      BY <1>1 DEF Out
    <3>2. searches[i].seq # seq + 1
      BY <1>2, <1>4, <3>1
    <3> QED
      BY <1>1, <3>1, <3>2
  <2>2. timer' => Searchable(text')
    BY <1>1 DEF SearchesOfTheText
  <2>3. searched' = FALSE /\ searches' = searches
    BY <1>1
  <2> QED
    BY <2>1, <2>2, <2>3 DEF SearchesOfTheText
<1>7. ListMarked'
  <2>1. list'.options = <<>> /\ list'.lit = 0 /\ list'.open = FALSE /\ Len(<<>>) = 0
    BY <1>1, NoListFits
  <2> QED
    BY <1>1, <2>1 DEF ListMarked
<1> QED
  BY <1>3, <1>5, <1>6, <1>7

LEMMA ClaimSteps == ASSUME FieldInv, SubmitsClaim \/ ClaimRefused PROVE FieldInv'
<1> USE DEF FieldInv
<1>1. UNCHANGED <<text, timer, searches, seq, skip, list, searched, keys, strayed>>
  BY DEF SubmitsClaim, ClaimRefused
<1>2. claim' \in [text : TagTexts, is : {"none", "sent", "refused"}]
  <2>1. text \in TagTexts /\ claim \in [text : TagTexts, is : {"none", "sent", "refused"}]
    BY DEF FieldTypes
  <2>2. CASE SubmitsClaim
    BY <2>1, <2>2 DEF SubmitsClaim
  <2>3. CASE ClaimRefused
    BY <2>1, <2>3 DEF ClaimRefused
  <2> QED
    BY <2>2, <2>3
<1>3. searchErrors' \in 0 .. MaxSearchErrors
  <2>1. \/ searchErrors' = searchErrors
        \/ searchErrors < MaxSearchErrors /\ searchErrors' = searchErrors + 1
    BY DEF SubmitsClaim, ClaimRefused
  <2>2. searchErrors \in 0 .. MaxSearchErrors /\ MaxSearchErrors \in Nat
    BY TagFieldAssumption DEF FieldTypes
  <2> QED
    BY <2>1, <2>2
<1>4. FieldTypes'
  BY <1>1, <1>2, <1>3 DEF FieldTypes
<1> QED
  BY <1>1, <1>4, FieldKept

LEMMA FieldStep == FieldInv /\ [TagFieldNext]_tagVars => FieldInv'
<1> SUFFICES ASSUME FieldInv, [TagFieldNext]_tagVars PROVE FieldInv'
  OBVIOUS
<1>1. CASE TagFieldNext
  BY <1>1, TypesTagStep, PicksTagStep, StartsSearchStep, EscapesListStep, ArrowStep, ClaimSteps,
     SearchAnsweredStep DEF TagFieldNext
<1>2. CASE UNCHANGED tagVars
  BY <1>2, FieldKept DEF tagVars, FieldInv, FieldTypes
<1> QED
  BY <1>1, <1>2

-----------------------------------------------------------------------------
\* People, and what they see.

PeopleInv == SocialInv /\ PhotoInv /\ FieldInv

\* The server does, next to the two machines in the browser, what it does alone: what is
\* proved of it holds in this run too.
THEOREM PeopleAreSocial == PeopleSpec => Spec
<1>1. PeopleInit => Init
  BY DEF PeopleInit
<1>2. [PeopleNext]_peopleVars => [Next]_vars
  BY DEF PeopleNext, peopleVars
<1> QED
  BY <1>1, <1>2, PTL DEF PeopleSpec, Spec

\* Positions are seen as agreed; a photo is saved without a bite out of it, every end of a
\* save is told, of the draft it was for, and the picture shown is the row's; and what is
\* suggested is what was found for the text in the field.
THEOREM PeopleShown == PeopleSpec => []PeopleAreAsShown
<1>1. PeopleInit => PeopleInv
  BY SocialInitInv, PhotoInitInv, FieldInitInv DEF PeopleInit, PeopleInv
<1>2. PeopleInv /\ [PeopleNext]_peopleVars => PeopleInv'
  <2> SUFFICES ASSUME PeopleInv, [PeopleNext]_peopleVars PROVE PeopleInv'
    OBVIOUS
  <2>1. [Next]_vars /\ [AvatarPanelNext]_panelVars /\ [TagFieldNext]_tagVars
    BY DEF PeopleNext, peopleVars
  <2> QED
    BY <2>1, SocialStep, PhotoStep, FieldStep DEF PeopleInv
<1>3. PeopleInv => PeopleAreAsShown
  BY SocialIsThen, PhotoIsThen, FieldIsThen DEF PeopleInv, PeopleAreAsShown
<1> QED
  BY <1>1, <1>2, <1>3, PTL DEF PeopleSpec
=============================================================================
