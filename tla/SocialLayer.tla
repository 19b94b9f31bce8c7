----------------------------- MODULE SocialLayer ----------------------------
(***************************************************************************)
(* What users of the API do to each other: links, location sharing and     *)
(* blocks, avatars and reports, over the same accounts and in the same     *)
(* requests, next to the verifier and to accounts being deleted.           *)
(***************************************************************************)
EXTENDS LocationSharing, AvatarModeration

vars == <<linkVars, served, sharingVars, avatarVars>>

TypeOK == LinksTypeOK /\ SharingTypeOK /\ AvatarsTypeOK

Init == LinksInit /\ SharingInit /\ AvatarsInit

\* deleteAccount: one transaction, most of it by cascade.
DeleteAccount(u) ==
  AccountGone(u) /\ ForgetSharing(u) /\ ForgetAvatar(u)

Next ==
  \/ (LinkRequest \/ Passing) /\ UNCHANGED <<sharingVars, avatarVars>>
  \/ FoldEmoteAndUnshare /\ UNCHANGED avatarVars
  \/ SharingRequest /\ UNCHANGED avatarVars
  \/ AvatarRequest /\ UNCHANGED sharingVars
  \/ \E u \in Users : DeleteAccount(u)

Spec == Init /\ [][Next]_vars

=============================================================================
