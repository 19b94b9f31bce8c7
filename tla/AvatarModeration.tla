-------------------------- MODULE AvatarModeration --------------------------
(***************************************************************************)
(* Avatars and their takedown (apps/api/src/lib/avatar-store.ts,           *)
(* avatar-autopopulate.ts, moderation.ts).  A report bans the bytes of an  *)
(* image by hash, for everybody who holds them; a moderator restores or    *)
(* confirms.                                                               *)
(*                                                                         *)
(* The first picture is copied from the login provider behind the sign-in: *)
(* the user's state is read, the picture fetched, and the row written.  A  *)
(* report reads, then opens a transaction that records the report, reads   *)
(* the verdict and bans; READ COMMITTED lets a moderator come in between.  *)
(* The daily cap of reports only refuses, and is left out.                 *)
(***************************************************************************)
EXTENDS GamertagLinks

CONSTANTS
  Hashes,    \* images, by their content
  Pictures   \* the images users hold at first: a function to Hashes or "none"

Verdicts == {"none", "auto", "confirmed", "allowed"}

ASSUME AvatarsAssumption ==
  /\ None \notin Verdicts
  /\ Hashes \cap {"none", "removed"} = {}
  /\ Pictures \in [Users -> Hashes \cup {"none"}]

VARIABLES
  avatars,     \* of each user: no row, a tombstone, or the hash
  verdicts,    \* blocked_avatar_hashes
  reported,    \* avatar_reports: reporter and hash
  reports,     \* reports under way
  populating   \* sign-ins whose picture is on the way

avatarVars == <<avatars, verdicts, reported, reports, populating>>

\* saw is history: the verdict when the transaction read it.
Report == [by: Users, hash: Hashes, saw: Verdicts \cup {None}]
\* had is history: the avatar when the sign-in began.
Populating == [user: Users, had: Hashes \cup {"none", "removed"}]

AvatarsTypeOK ==
  /\ avatars \in [Users -> Hashes \cup {"none", "removed"}]
  /\ verdicts \in [Hashes -> Verdicts]
  /\ reported \subseteq Users \X Hashes
  /\ reports \subseteq Report
  /\ populating \subseteq Populating

AvatarsInit ==
  /\ avatars = Pictures
  /\ verdicts = [h \in Hashes |-> "none"]
  /\ reported = {} /\ reports = {} /\ populating = {}

-----------------------------------------------------------------------------
\* POST /me/avatar, and POST /me/avatar/sync with what the provider sends.
Upload(u, h) ==
  /\ u \in users
  /\ Serve
  /\ avatars' = [avatars EXCEPT ![u] = h]
  /\ UNCHANGED <<linkVars, verdicts, reported, reports, populating>>

\* DELETE /me/avatar
Remove(u) ==
  /\ u \in users
  /\ Serve
  /\ avatars' = [avatars EXCEPT ![u] = "removed"]
  /\ UNCHANGED <<linkVars, verdicts, reported, reports, populating>>

-----------------------------------------------------------------------------
\* autoPopulateAvatar

MayPopulate(u) == avatars[u] = "none"

SignIn(u) ==
  /\ u \in users /\ MayPopulate(u)
  /\ Serve
  /\ populating' = populating \cup {[user |-> u, had |-> avatars[u]]}
  /\ UNCHANGED <<linkVars, avatars, verdicts, reported, reports>>

\* Whatever the row has become meanwhile, the picture goes over it.
Populate(p, h) ==
  /\ populating' = populating \ {p}
  /\ avatars' = IF p.user \in users THEN [avatars EXCEPT ![p.user] = h] ELSE avatars
  /\ UNCHANGED <<linkVars, served, verdicts, reported, reports>>

PopulateFails(p) ==
  /\ populating' = populating \ {p}
  /\ UNCHANGED <<linkVars, served, avatars, verdicts, reported, reports>>

-----------------------------------------------------------------------------
\* reportAvatar

Holders(h) == {u \in users : avatars[u] = h}

ReportReads(u, h) ==
  /\ u \in users /\ IsVerified(u)
  /\ Holders(h) # {} /\ u \notin Holders(h)
  /\ Serve
  /\ reports' = reports \cup {[by |-> u, hash |-> h, saw |-> None]}
  /\ UNCHANGED <<linkVars, avatars, verdicts, reported, populating>>

Reviewed(h) == verdicts[h] = "allowed"

\* The report is recorded and the verdict read.  Restored bytes stay, and a
\* report already on record changes nothing; otherwise the ban follows.  Another
\* transaction with the same report waits on the unique index.
ReportChecks(r) ==
  /\ r.saw = None
  /\ \A q \in reports : q.by = r.by /\ q.hash = r.hash => q.saw = None
  /\ IF \/ r.by \notin users
        \/ ~Reviewed(r.hash) /\ <<r.by, r.hash>> \in reported
     THEN reports' = reports \ {r} /\ UNCHANGED reported
     ELSE IF Reviewed(r.hash)
     THEN reports' = reports \ {r} /\ reported' = reported \cup {<<r.by, r.hash>>}
     ELSE /\ reports' = (reports \ {r}) \cup {[r EXCEPT !.saw = verdicts[r.hash]]}
          /\ UNCHANGED reported
  /\ UNCHANGED <<linkVars, served, avatars, verdicts, populating>>

\* Faulty variant of Banned: the ban goes over any verdict.
BannedAnyway(h) == [verdicts EXCEPT ![h] = "auto"]

\* banAvatarHash: INSERT ... ON CONFLICT DO NOTHING.
Banned(h) == [verdicts EXCEPT ![h] = IF @ = "none" THEN "auto" ELSE @]

\* The commit, answered with ok: the reporter reads that the image is hidden.
ReportBans(r) ==
  /\ r.saw # None
  /\ reports' = reports \ {r}
  /\ reported' = reported \cup {<<r.by, r.hash>>}
  /\ verdicts' = Banned(r.hash)
  /\ UNCHANGED <<linkVars, served, avatars, populating>>

-----------------------------------------------------------------------------
\* Moderators.

\* POST /moderation/hashes/:hash/restore
Restore(h) ==
  /\ Serve
  /\ verdicts' = [verdicts EXCEPT ![h] = "allowed"]
  /\ UNCHANGED <<linkVars, avatars, reported, reports, populating>>

\* POST /moderation/hashes/:hash/confirm: the bytes go.
Confirm(h) ==
  /\ Serve
  /\ verdicts' = [verdicts EXCEPT ![h] = "confirmed"]
  /\ avatars' = [u \in Users |-> IF avatars[u] = h THEN "removed" ELSE avatars[u]]
  /\ UNCHANGED <<linkVars, reported, reports, populating>>

\* What deleting the user's row takes along.  The row of the reporter is locked
\* by a report under way: the deletion waits.
ForgetAvatar(u) ==
  /\ \A r \in reports : r.by = u => r.saw = None
  /\ avatars' = [avatars EXCEPT ![u] = "none"]
  /\ reported' = {r \in reported : r[1] # u}
  /\ UNCHANGED <<verdicts, reports, populating>>

-----------------------------------------------------------------------------
\* avatarHashNotBanned, getAvatarByHash: are the bytes served?
NotBanned(h) == verdicts[h] \in {"none", "allowed"}
Serves(h) == Holders(h) # {} /\ NotBanned(h)

AvatarRequest ==
  \/ \E u \in Users : Remove(u) \/ SignIn(u)
  \/ \E u \in Users, h \in Hashes : Upload(u, h) \/ ReportReads(u, h)
  \/ \E p \in populating : PopulateFails(p) \/ \E h \in Hashes : Populate(p, h)
  \/ \E r \in reports : ReportChecks(r) \/ ReportBans(r)
  \/ \E h \in Hashes : Restore(h) \/ Confirm(h)

-----------------------------------------------------------------------------
\* Properties.

\* A verdict of a moderator is changed by a moderator only: no report, however
\* it overlaps with the decision, hides restored bytes or shows removed ones.
\* (Every moderator's act is a request of its own; a report's commit is none.)
HumanDecides ==
  [][\A h \in Hashes : verdicts[h] \in {"allowed", "confirmed"} =>
       verdicts'[h] = verdicts[h] \/ served' = served + 1]_avatarVars

\* A report answered with ok has hidden the image, unless a moderator restored
\* it between the report's own look at the verdict and its ban.
OkMeansHidden ==
  [][\A r \in reports \ reports' :
       r.saw # None => \/ ~NotBanned(r.hash)'
                       \/ r.saw # "allowed" /\ verdicts[r.hash] = "allowed"]_avatarVars

\* A removed avatar comes back by its user's own hand, or by a sign-in that had
\* looked before the removal; never by a later sign-in.
RemovalStays ==
  [][\A u \in Users : avatars[u] = "removed" /\ avatars'[u] \in Hashes =>
       \/ served' = served + 1
       \/ \E p \in populating \ populating' : p.user = u /\ p.had = "none"]_avatarVars

\* A moderator's verdict outlives reports, a report's ok is true, and what was
\* taken down stays down.
VerdictsHold == HumanDecides /\ OkMeansHidden /\ RemovalStays

=============================================================================
