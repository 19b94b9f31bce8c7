--------------------------- MODULE LocationSharing --------------------------
(***************************************************************************)
(* Live positions on the map: a user hands another one their position for  *)
(* the rest of one game session (packages/location-sharing and             *)
(* apps/api/src/routes/map-share.ts), and a block severs that both ways    *)
(* (apps/api/src/lib/moderation.ts).  A share is a row that remembers when *)
(* the session began; nothing removes it when the session ends, it only    *)
(* stops to match.                                                         *)
(*                                                                         *)
(* A gamertag stands for its player, and a position is always fresh.  Two  *)
(* requests read before the transaction in which they write: a share       *)
(* checks the block, and a block looks up whose name it is.                *)
(***************************************************************************)
EXTENDS GamertagLinks

CONSTANTS
  GameServers,
  MaxConnects   \* bound: sessions that begin

ASSUME SharingAssumption == GameServers # {} /\ MaxConnects \in Nat

VARIABLES
  sessions,  \* when the open session of a gamertag on a server began, 0 for none
  connects,  \* sessions begun; each begins at a time of its own
  shares,    \* location_shares
  blocks,    \* user_blocks
  granting,  \* share requests that have read and not yet written
  blocking,  \* block requests likewise
  told,      \* the natural keys of the location_shared notifications
  raced      \* history: pairs blocked while one was about to share with the other

sharingVars == <<sessions, connects, shares, blocks, granting, blocking, told, raced>>

Share == [granter: Users, grantee: Users, server: GameServers, start: 1 .. MaxConnects]
BlockRow == [by: Users, of: Users, tag: Tags]
Granting == [granter: Users, tag: Tags, grantee: Users, server: GameServers]
Told == [to: Users, tag: Tags, start: 1 .. MaxConnects]

SharingTypeOK ==
  /\ sessions \in [Tags \X GameServers -> 0 .. connects]
  /\ connects \in 0 .. MaxConnects
  /\ shares \subseteq Share
  /\ \A a, b \in shares :
       <<a.granter, a.grantee, a.server>> = <<b.granter, b.grantee, b.server>> => a = b
  /\ \A a \in shares : a.granter # a.grantee /\ {a.granter, a.grantee} \subseteq users
  /\ blocks \subseteq BlockRow
  /\ \A a, b \in blocks : a.by = b.by /\ a.of = b.of => a = b
  /\ granting \subseteq Granting /\ blocking \subseteq BlockRow
  /\ told \subseteq Told
  /\ raced \subseteq SUBSET Users

SharingInit ==
  /\ sessions = [p \in Tags \X GameServers |-> 0] /\ connects = 0
  /\ shares = {} /\ blocks = {} /\ granting = {} /\ blocking = {}
  /\ told = {} /\ raced = {}

-----------------------------------------------------------------------------
\* verifiedGamertag, verifiedUserFor: at most one of each.
TagOf(u) == {links[l].tag : l \in {m \in Verified : links[m].user = u}}
HolderOf(t) == {links[l].user : l \in VerifiedAs(t)}

\* isBlockedEitherWay
Blocked(u, v) == \E b \in blocks : {b.by, b.of} = {u, v}

-----------------------------------------------------------------------------
\* Sessions, as the projection has them.

Connect(t, s) ==
  /\ sessions[<<t, s>>] = 0 /\ connects < MaxConnects
  /\ connects' = connects + 1
  /\ sessions' = [sessions EXCEPT ![<<t, s>>] = connects + 1]
  /\ UNCHANGED <<linkVars, served, shares, blocks, granting, blocking, told, raced>>

Disconnect(t, s) ==
  /\ sessions[<<t, s>>] # 0
  /\ sessions' = [sessions EXCEPT ![<<t, s>>] = 0]
  /\ UNCHANGED <<linkVars, served, connects, shares, blocks, granting, blocking, told, raced>>

-----------------------------------------------------------------------------
\* POST /me/maps/:mapSlug/shares

ShareReads(u, t, s) ==
  /\ u \in users
  /\ Serve
  /\ \E mine \in TagOf(u), v \in HolderOf(t) \ {u} :
       /\ ~Blocked(u, v)
       /\ granting' = granting \cup
            {[granter |-> u, tag |-> mine, grantee |-> v, server |-> s]}
  /\ UNCHANGED <<linkVars, sessions, connects, shares, blocks, blocking, told, raced>>

\* Faulty variant of Granted: a share of an earlier session is kept.
GrantedBesides(q) ==
  shares \cup {[granter |-> q.granter, grantee |-> q.grantee, server |-> q.server,
                start |-> sessions[<<q.tag, q.server>>]]}

\* A share of an earlier session is renewed.
Granted(q) ==
  {a \in shares : <<a.granter, a.grantee, a.server>> # <<q.granter, q.grantee, q.server>>}
    \cup {[granter |-> q.granter, grantee |-> q.grantee, server |-> q.server,
           start |-> sessions[<<q.tag, q.server>>]]}

\* The share and its notification are written together.  Whoever is offline
\* shares nothing; an account gone meanwhile breaks the foreign key.
ShareWrites(q) ==
  /\ granting' = granting \ {q}
  /\ IF sessions[<<q.tag, q.server>>] = 0 \/ ~({q.granter, q.grantee} \subseteq users)
     THEN UNCHANGED <<shares, told>>
     ELSE /\ shares' = Granted(q)
          /\ told' = told \cup {[to |-> q.grantee, tag |-> q.tag,
                                 start |-> sessions[<<q.tag, q.server>>]]}
  /\ UNCHANGED <<linkVars, served, sessions, connects, blocks, blocking, raced>>

\* DELETE /me/maps/:mapSlug/shares
RevokeAll(u, s) ==
  /\ u \in users /\ IsVerified(u)
  /\ Serve
  /\ shares' = {a \in shares : a.granter # u \/ a.server # s}
  /\ UNCHANGED <<linkVars, sessions, connects, blocks, granting, blocking, told, raced>>

\* DELETE /me/maps/:mapSlug/shares/:gamertag
Revoke(u, t, s) ==
  /\ u \in users /\ IsVerified(u)
  /\ Serve
  /\ shares' = {a \in shares : \/ a.granter # u \/ a.server # s
                               \/ a.grantee \notin HolderOf(t)}
  /\ UNCHANGED <<linkVars, sessions, connects, blocks, granting, blocking, told, raced>>

-----------------------------------------------------------------------------
\* Blocks

\* Faulty variant of Unshared: only what the blocker shares ends.
UnsharedOneWay(u, v) == {a \in shares : <<a.granter, a.grantee>> # <<u, v>>}

Unshared(u, v) == {a \in shares : {a.granter, a.grantee} # {u, v}}

\* POST /me/blocks: whose name it is is looked up before the transaction.
BlockReads(u, t) ==
  /\ u \in users
  /\ Serve
  /\ \E v \in HolderOf(t) \ {u} : blocking' = blocking \cup {[by |-> u, of |-> v, tag |-> t]}
  /\ UNCHANGED <<linkVars, sessions, connects, shares, blocks, granting, told, raced>>

\* A block again refreshes the name; the shares go with it.  An account gone meanwhile
\* breaks the foreign key.
BlockWrites(new) ==
  /\ blocking' = blocking \ {new}
  /\ IF {new.by, new.of} \subseteq users
     THEN /\ blocks' = {b \in blocks : b.by # new.by \/ b.of # new.of} \cup {new}
          /\ shares' = Unshared(new.by, new.of)
          /\ raced' = IF \E q \in granting : {q.granter, q.grantee} = {new.by, new.of}
                      THEN raced \cup {{new.by, new.of}} ELSE raced \ {{new.by, new.of}}
     ELSE UNCHANGED <<blocks, shares, raced>>
  /\ UNCHANGED <<linkVars, served, sessions, connects, granting, told>>

\* DELETE /me/blocks/:gamertag, by the name of the time.
Unblock(u, t) ==
  /\ u \in users
  /\ Serve
  /\ blocks' = {b \in blocks : b.by # u \/ b.tag # t}
  /\ UNCHANGED <<linkVars, sessions, connects, shares, granting, blocking, told, raced>>

-----------------------------------------------------------------------------
\* verifyLink clears what the winner shares, in the fold's transaction.
FoldEmoteAndUnshare ==
  /\ FoldEmote
  /\ LET winners == {links[l].user : l \in Winning(emotes[verifier.batch.at])}
     IN  shares' = {a \in shares : a.granter \notin winners}
  /\ UNCHANGED <<sessions, connects, blocks, granting, blocking, told, raced>>

\* What deleting the user's row takes along.
ForgetSharing(u) ==
  /\ shares' = {a \in shares : u \notin {a.granter, a.grantee}}
  /\ blocks' = {b \in blocks : u \notin {b.by, b.of}}
  /\ told' = {n \in told : n.to # u}
  /\ UNCHANGED <<sessions, connects, granting, blocking, raced>>

-----------------------------------------------------------------------------
\* GET /me/maps/:mapSlug

\* getSharedPositions: the share joined with the granter's verified link and open
\* session.
SeesDot(v, g, s) ==
  /\ IsVerified(v)
  /\ \E a \in shares, t \in TagOf(g) :
       /\ a.granter = g /\ a.grantee = v /\ a.server = s
       /\ sessions[<<t, s>>] = a.start

\* activeGrantees and gamertagsForUsers: whom the chip names.
Chip(g, s) ==
  UNION {TagOf(a.grantee) : a \in {b \in shares : /\ b.granter = g /\ b.server = s
                                                  /\ \E t \in TagOf(g) :
                                                       b.start = sessions[<<t, s>>]}}

SharingRequest ==
  \/ \E u \in Users, s \in GameServers :
       RevokeAll(u, s) \/ \E t \in Tags : ShareReads(u, t, s) \/ Revoke(u, t, s)
  \/ \E u \in Users, t \in Tags : BlockReads(u, t) \/ Unblock(u, t)
  \/ \E q \in granting : ShareWrites(q)
  \/ \E new \in blocking : BlockWrites(new)
  \/ \E t \in Tags, s \in GameServers : Connect(t, s) \/ Disconnect(t, s)

-----------------------------------------------------------------------------
\* Properties.

\* Whoever sees a user's dot is named in that user's own chip, and no block lies
\* between the two, whoever of them blocked: only a share that had passed the
\* block check when the block was written can get across one.
SeenAsAgreed ==
  \A g, v \in Users, s \in GameServers :
    SeesDot(v, g, s) => /\ TagOf(v) \subseteq Chip(g, s)
                        /\ Blocked(g, v) => {g, v} \in raced

=============================================================================
