----------------------------- MODULE AccountHome -----------------------------
(***************************************************************************)
(* The home page of a signed-in player (apps/web: account-status.ts,       *)
(* use-gamertag-links.ts, use-controls.ts, account-panels.tsx,             *)
(* verification-announcer.tsx, pending-hero.tsx, verified-home.tsx,        *)
(* ticket-stage.tsx, ticket-spend.tsx, controls-slab.tsx, buy-tokens.tsx,  *)
(* checkout-return.tsx; apps/api: routes/tokens.ts, routes/store.ts).      *)
(* Three queries, each asked for by a mount, a timer, a focus or an        *)
(* invalidation, feed what is shown; four calls change the server.  An     *)
(* answer is read at the server, then travels.                             *)
(***************************************************************************)
EXTENDS Naturals

CONSTANTS
  Bundle,      \* tokens a checkout buys
  MaxSteps,      \* bound: what the game and the others do, and, twice over, what the player presses
  MaxOutages     \* bound: requests that fail, and answers lost

ASSUME AccountHomeAssumption ==
  Bundle \in Nat \ {0} /\ {MaxSteps, MaxOutages} \subseteq Nat

VARIABLES
  truth,     \* at the server: the link, the balance, the ban, the purchase
  data,      \* the query cache
  asking,    \* of each query: the fetch under way
  ticket,    \* of the banned ticket: its own "pending", and the redeem under way
  sending,   \* the call of the send field
  leaving,   \* the buy button
  return,    \* CheckoutReturn
  announcer, \* VerificationAnnouncer
  turns, presses, outages,
  unseen,    \* history: the balance changed where this page does not refetch it
  spent,     \* history: of each token spent, the ban shown, the ban lifted, the rest
  swapped    \* history: a ticket changed its ban while it said "Lifting"

client == <<data, asking, ticket, sending, leaving, return, announcer>>
homeVars == <<truth, client, turns, presses, outages, unseen, spent, swapped>>

Queries == {"links", "page", "tokens"}
Unknown == "unknown"
NoBan == [ban |-> 0, lifting |-> FALSE]
NoTicket == [mounted |-> FALSE, pending |-> FALSE, call |-> "none", ban |-> 0, own |-> FALSE]
\* known: the queries whose last fetch succeeded.
Afresh == [links |-> Unknown, page |-> NoBan, tokens |-> 0, known |-> {}]
Fetch(stage, answer) == [stage |-> stage, answer |-> answer]
Idle == [q \in Queries |-> Fetch("idle", {})]
Asked == Fetch("asked", {})

AccountHomeTypeOK ==
  /\ truth.link \in {"none", "pending", "verified"} /\ truth.balance \in Nat
  /\ truth.purchase \in {"none", "open", "paid"} /\ truth.credited \in 0 .. Bundle
  /\ data.links \in {Unknown, "failed", "none", "pending", "verified"}
  /\ ticket.call \in {"none", "sent", "ok", "refused"}
  /\ sending \in {"none", "sent", "ok", "refused"}
  /\ leaving \in {"ready", "busy", "away"}
  /\ return.says \in {"", "added", "replay", "processing"}
  /\ return.call \in {"none", "sent", "unpaid", "paid"} /\ return.mine \in 0 .. Bundle
  /\ turns \in Nat /\ presses \in Nat /\ turns + 2 * presses <= MaxSteps
  /\ outages \in 0 .. MaxOutages

NoReturn == [param |-> FALSE, call |-> "none", mine |-> 0, says |-> "", granted |-> 0]
NoOneYet == [last |-> Unknown, announced |-> FALSE, sawPending |-> FALSE]

AccountHomeInit ==
  /\ truth \in [link : {"pending", "verified"}, balance : {2}, bans : {0}, ban : {0},
                lifting : {FALSE}, purchase : {"none"}, credited : {0}]
  /\ data = Afresh /\ asking = [Idle EXCEPT !.links = Asked]
  /\ ticket = NoTicket /\ sending = "none" /\ leaving = "ready"
  /\ return = NoReturn /\ announcer = NoOneYet
  /\ turns = 0 /\ presses = 0 /\ outages = 0
  /\ unseen = FALSE /\ spent = {} /\ swapped = FALSE

-----------------------------------------------------------------------------
\* accountStatus: links that could not be read are no links.
Status(links) ==
  CASE links = Unknown -> "loading"
    [] links \in {"failed", "none"} -> "unlinked"
    [] OTHER -> links
HomeIsUp == leaving # "away" /\ Status(data.links) = "verified"

Press == turns + 2 * presses + 2 <= MaxSteps /\ presses' = presses + 1
Outage == outages < MaxOutages /\ outages' = outages + 1
Turn == turns + 2 * presses < MaxSteps /\ turns' = turns + 1

\* invalidateQueries: a fetch under way is dropped for a new one.
Invalidated(queries) == [q \in Queries |-> IF q \in queries THEN Asked ELSE asking[q]]

\* On the server.
Shown(q) ==
  CASE q = "links" -> truth.link
    [] q = "page" -> [ban |-> truth.ban, lifting |-> truth.lifting]
    [] q = "tokens" -> truth.balance

-----------------------------------------------------------------------------
\* The queries: timers and focus ask where no fetch is under way.

\* The page's minute, and the links' five seconds while one is pending.
Polls(q) ==
  /\ leaving # "away" /\ asking[q].stage = "idle"
  /\ (q = "links" /\ data.links = "pending") \/ (q = "page" /\ HomeIsUp)
  /\ asking' = [asking EXCEPT ![q] = Asked]
  /\ UNCHANGED <<truth, data, ticket, sending, leaving, return, announcer, turns, presses, outages,
                 unseen, spent, swapped>>

Focuses ==
  /\ leaving # "away" /\ Press
  /\ asking' = [q \in Queries |->
       IF asking[q].stage = "idle" /\ (q = "links" \/ HomeIsUp) THEN Asked ELSE asking[q]]
  /\ UNCHANGED <<truth, data, ticket, sending, leaving, return, announcer, turns, outages, unseen,
                 spent, swapped>>

ServerReads(q) ==
  /\ asking[q].stage = "asked"
  /\ asking' = [asking EXCEPT ![q] = Fetch("read", {Shown(q)})]
  /\ unseen' = (unseen /\ q # "tokens")
  /\ UNCHANGED <<truth, data, ticket, sending, leaving, return, announcer, turns, presses, outages,
                 spent, swapped>>

\* A failed fetch leaves the data, but the query is an error until the next succeeds:
\* the balance is then not shown, and links without data are none.
FetchBreaks(q) ==
  /\ asking[q].stage # "idle" /\ Outage
  /\ asking' = [asking EXCEPT ![q] = Idle[q]]
  /\ data' = [data EXCEPT !.known = @ \ {q},
                       !.links = IF q = "links" /\ @ = Unknown THEN "failed" ELSE @]
  /\ UNCHANGED <<truth, ticket, sending, leaving, return, announcer, turns, presses, unseen, spent, swapped>>

Answer(q) == CHOOSE answer \in asking[q].answer : TRUE
Arrives(q) ==
  /\ asking[q].stage = "read"
  /\ data' = [data EXCEPT ![q] = Answer(q), !.known = @ \cup {q}]

\* VerificationAnnouncer follows the status from render to render.
Announces(kind) ==
  announcer' = [last |-> kind,
                sawPending |-> kind = "pending" \/ (announcer.sawPending /\ kind # "unlinked"),
                announced |-> announcer.announced \/ (announcer.last = "pending" /\ kind = "verified")]

\* The home mounts: its two queries ask, and a checkout come back is confirmed.
LinksArrive ==
  /\ Arrives("links")
  /\ LET links == Answer("links")
         mounts == links = "verified" /\ data.links # "verified"
     IN  /\ asking' = [Invalidated(IF mounts THEN {"page", "tokens"} ELSE {})
                        EXCEPT !.links = Idle["links"]]
         /\ return' = IF mounts /\ return.param THEN [return EXCEPT !.call = "sent"] ELSE return
         /\ Announces(Status(links))
  /\ UNCHANGED <<truth, ticket, sending, leaving, turns, presses, outages, unseen, spent, swapped>>

\* toTicket and the stage: a banned ticket that stays keeps its "pending", whatever
\* ban it is now of.
TicketOf(page) ==
  IF page.ban = 0 THEN [ticket EXCEPT !.mounted = FALSE, !.pending = FALSE, !.own = FALSE]
  ELSE IF ticket.mounted THEN ticket
  ELSE [ticket EXCEPT !.mounted = TRUE, !.pending = page.lifting, !.own = FALSE]

PageArrives ==
  /\ Arrives("page") /\ asking' = [asking EXCEPT !.page = Idle["page"]]
  /\ ticket' = TicketOf(Answer("page"))
  /\ swapped' = (\/ swapped /\ Answer("page").ban # 0
                 \/ ticket.pending /\ Answer("page").ban \notin {0, data.page.ban})
  /\ UNCHANGED <<truth, sending, leaving, return, announcer, turns, presses, outages, unseen, spent>>

TokensArrive ==
  /\ Arrives("tokens") /\ asking' = [asking EXCEPT !.tokens = Idle["tokens"]]
  /\ UNCHANGED <<truth, ticket, sending, leaving, return, announcer, turns, presses, outages, unseen,
                 spent, swapped>>

-----------------------------------------------------------------------------
\* Pending: cancel and start anew (one action each; both refetch the links).

CancelsClaim ==
  /\ Status(data.links) = "pending" /\ leaving # "away" /\ Press
  /\ truth' = [truth EXCEPT !.link = IF @ = "pending" THEN "none" ELSE @]
  /\ asking' = Invalidated({"links"})
  /\ UNCHANGED <<data, ticket, sending, leaving, return, announcer, turns, outages, unseen, spent, swapped>>

Claims ==
  /\ Status(data.links) \in {"unlinked", "pending"} /\ leaving # "away" /\ Press
  /\ truth' = [truth EXCEPT !.link = IF @ = "none" THEN "pending" ELSE @]
  /\ asking' = Invalidated({"links"})
  /\ UNCHANGED <<data, ticket, sending, leaving, return, announcer, turns, outages, unseen, spent, swapped>>

-----------------------------------------------------------------------------
\* The ticket: "Spend 1 token".

SpendsToken ==
  /\ HomeIsUp /\ ticket.mounted /\ ~ticket.pending /\ ticket.call = "none" /\ Press
  /\ ticket' = [ticket EXCEPT !.pending = TRUE, !.call = "sent", !.ban = data.page.ban, !.own = TRUE]
  /\ UNCHANGED <<truth, data, asking, sending, leaving, return, announcer, turns, outages, unseen,
                 spent, swapped>>

\* redeem: the ban the request names, if it is one that can be lifted.
Named(ban) == IF truth.ban = ban /\ ~truth.lifting THEN ban ELSE 0
\* Faulty variant of Redeemable: whatever ban the player has.
AnyBan(ban) == IF ~truth.lifting THEN truth.ban ELSE 0
Redeemable(ban) == Named(ban)

RedeemLands ==
  /\ ticket.call = "sent"
  /\ IF Redeemable(ticket.ban) # 0 /\ truth.balance > 0
     THEN /\ truth' = [truth EXCEPT !.balance = @ - 1, !.lifting = TRUE]
          /\ ticket' = [ticket EXCEPT !.call = "ok"] /\ unseen' = TRUE
          /\ spent' = spent \cup {[shown |-> ticket.ban, lifted |-> Redeemable(ticket.ban),
                                  left |-> truth.balance - 1]}
     ELSE ticket' = [ticket EXCEPT !.call = "refused"] /\ UNCHANGED <<truth, unseen, spent>>
  /\ UNCHANGED <<data, asking, sending, leaving, return, announcer, turns, presses, outages, swapped>>

\* router.refresh() asks for none of the queries.
RedeemAnswered ==
  /\ ticket.call \in {"ok", "refused"}
  /\ ticket' = [ticket EXCEPT !.call = "none",
                              !.pending = @ /\ ~(ticket.own /\ ticket.call = "refused")]
  /\ UNCHANGED <<truth, data, asking, sending, leaving, return, announcer, turns, presses, outages,
                 unseen, spent, swapped>>

RedeemBreaks ==
  /\ ticket.call # "none" /\ Outage
  /\ ticket' = [ticket EXCEPT !.call = "none", !.pending = @ /\ ~ticket.own]
  /\ UNCHANGED <<truth, data, asking, sending, leaving, return, announcer, turns, presses, unseen,
                 spent, swapped>>

-----------------------------------------------------------------------------
\* The send field; whose name is in it is left out.

Sends ==
  /\ HomeIsUp /\ sending = "none" /\ Press /\ sending' = "sent"
  /\ UNCHANGED <<truth, data, asking, ticket, leaving, return, announcer, turns, outages, unseen,
                 spent, swapped>>

SendLands ==
  /\ sending = "sent"
  /\ IF truth.balance > 0
     THEN truth' = [truth EXCEPT !.balance = @ - 1] /\ sending' = "ok"
     ELSE sending' = "refused" /\ UNCHANGED truth
  /\ UNCHANGED <<data, asking, ticket, leaving, return, announcer, turns, presses, outages, unseen,
                 spent, swapped>>

\* A success clears the field, whatever was typed meanwhile; a refusal is not shown.
Refetched == Invalidated({"tokens"})
SendAnswered ==
  /\ sending \in {"ok", "refused"} /\ sending' = "none"
  /\ asking' = IF sending = "ok" THEN Refetched ELSE asking
  /\ UNCHANGED <<truth, data, ticket, leaving, return, announcer, turns, presses, outages, unseen,
                 spent, swapped>>

SendBreaks ==
  /\ sending # "none" /\ Outage /\ sending' = "none"
  /\ unseen' = (unseen \/ sending = "ok")
  /\ UNCHANGED <<truth, data, asking, ticket, leaving, return, announcer, turns, presses, spent, swapped>>

-----------------------------------------------------------------------------
\* Buying: the page is left for Stripe's, and loaded anew.

Buys ==
  /\ HomeIsUp /\ leaving = "ready" /\ truth.purchase = "none" /\ Press
  /\ leaving' = "busy"
  /\ UNCHANGED <<truth, data, asking, ticket, sending, return, announcer, turns, outages, unseen,
                 spent, swapped>>

CheckoutOpens ==
  /\ leaving = "busy" /\ leaving' = "away"
  /\ truth' = [truth EXCEPT !.purchase = "open"]
  /\ UNCHANGED <<data, asking, ticket, sending, return, announcer, turns, presses, outages, unseen,
                 spent, swapped>>

CheckoutRefused ==
  /\ leaving = "busy" /\ Outage /\ leaving' = "ready"
  /\ UNCHANGED <<truth, data, asking, ticket, sending, return, announcer, turns, presses, unseen,
                 spent, swapped>>

\* A load: nothing is left of what the page knew.
Loads(param) ==
  /\ data' = Afresh /\ asking' = [Idle EXCEPT !.links = Asked]
  /\ ticket' = NoTicket /\ sending' = "none" /\ leaving' = "ready" /\ announcer' = NoOneYet
  /\ return' = [NoReturn EXCEPT !.param = param]
  /\ swapped' = FALSE
  /\ UNCHANGED <<truth, turns, outages, unseen, spent>>

\* The card is charged, or will be; or the buyer thinks better of it.
ComesBack ==
  /\ leaving = "away" /\ UNCHANGED presses /\ Loads(truth.purchase # "none")
GivesUp ==
  /\ leaving = "away" /\ truth.purchase = "open" /\ UNCHANGED presses /\ Loads(FALSE)
\* A call under way is let land first.
Reloads ==
  /\ leaving = "ready" /\ Press /\ ticket.call # "sent" /\ sending # "sent" /\ return.call # "sent"
  /\ Loads(return.param)

\* Stripe, and its webhook.
CardCharged ==
  /\ truth.purchase = "open" /\ truth' = [truth EXCEPT !.purchase = "paid"]
  /\ UNCHANGED <<client, turns, presses, outages, unseen, spent, swapped>>

Credited == [truth EXCEPT !.credited = @ + 1, !.balance = @ + 1]
WebhookGrants ==
  /\ truth.purchase = "paid" /\ truth.credited < Bundle
  /\ truth' = Credited /\ unseen' = TRUE
  /\ UNCHANGED <<client, turns, presses, outages, spent, swapped>>

\* The confirmation: fulfillPurchase grants what is not yet granted, token by token,
\* and its answer says how many those were.
ConfirmGrants ==
  /\ return.call = "sent" /\ truth.purchase = "paid" /\ truth.credited < Bundle
  /\ truth' = Credited /\ return' = [return EXCEPT !.mine = @ + 1]
  /\ UNCHANGED <<data, asking, ticket, sending, leaving, announcer, turns, presses, outages, unseen,
                 spent, swapped>>

ConfirmEnds ==
  /\ return.call = "sent"
  /\ \/ truth.purchase # "paid" /\ return' = [return EXCEPT !.call = "unpaid"]
     \/ /\ truth.purchase = "paid" /\ truth.credited = Bundle
        /\ return' = [return EXCEPT !.call = "paid"]
  /\ UNCHANGED <<truth, data, asking, ticket, sending, leaving, announcer, turns, presses, outages,
                 unseen, spent, swapped>>

\* What is said of an answer.
Outcome(call, mine) ==
  IF call # "paid" THEN "processing" ELSE IF mine > 0 THEN "added" ELSE "replay"

Settled(says) ==
  return' = [return EXCEPT !.param = FALSE, !.call = "none", !.says = says, !.granted = return.mine]

ConfirmAnswered ==
  /\ return.call \in {"unpaid", "paid"} /\ leaving # "away"
  /\ Settled(Outcome(return.call, return.mine)) /\ asking' = Invalidated({"tokens"})
  /\ UNCHANGED <<truth, data, ticket, sending, leaving, announcer, turns, presses, outages, unseen,
                 spent, swapped>>

ConfirmBreaks ==
  /\ return.call # "none" /\ Outage
  /\ Settled("processing") /\ unseen' = TRUE
  /\ UNCHANGED <<truth, data, asking, ticket, sending, leaving, announcer, turns, presses, spent, swapped>>

-----------------------------------------------------------------------------
\* The game, the enforcer and the verifier.

Verifies ==
  /\ truth.link = "pending" /\ Turn /\ truth' = [truth EXCEPT !.link = "verified"]
  /\ UNCHANGED <<client, presses, outages, unseen, spent, swapped>>
GetsBanned ==
  /\ truth.link = "verified" /\ truth.ban = 0 /\ Turn
  /\ truth' = [truth EXCEPT !.bans = @ + 1, !.ban = truth.bans + 1]
  /\ UNCHANGED <<client, presses, outages, unseen, spent, swapped>>
GetsFree ==
  /\ truth.ban # 0 /\ Turn /\ truth' = [truth EXCEPT !.ban = 0, !.lifting = FALSE]
  /\ UNCHANGED <<client, presses, outages, unseen, spent, swapped>>

AccountHomeNext ==
  \/ Focuses \/ \E q \in Queries : Polls(q) \/ ServerReads(q) \/ FetchBreaks(q)
  \/ LinksArrive \/ PageArrives \/ TokensArrive \/ CancelsClaim \/ Claims
  \/ SpendsToken \/ RedeemLands \/ RedeemAnswered \/ RedeemBreaks
  \/ Sends \/ SendLands \/ SendAnswered \/ SendBreaks
  \/ Buys \/ CheckoutOpens \/ CheckoutRefused \/ ComesBack \/ GivesUp \/ Reloads
  \/ CardCharged \/ WebhookGrants \/ ConfirmGrants \/ ConfirmEnds \/ ConfirmAnswered \/ ConfirmBreaks
  \/ Verifies \/ GetsBanned \/ GetsFree

-----------------------------------------------------------------------------
\* Properties.

\* A token lifts the ban its ticket showed, and no ban takes two.
TokensGoWhereShown ==
  /\ \A s \in spent : s.shown = s.lifted
  /\ \A s, t \in spent : s.lifted = t.lifted => s = t

\* "Lifting" is said of a ban that is paid for, unless the call is under way or the
\* ticket has changed its ban since.
LiftingIsPaid ==
  ticket.pending =>
    \/ swapped \/ ticket.call # "none"
    \/ \E s \in spent : s.lifted = data.page.ban

\* With no call or fetch of it under way the balance shown is the player's, unless it changed where
\* this page does not look: another's grant, a redemption, an answer lost.
BalanceIsCurrent ==
  /\ "tokens" \in data.known /\ asking.tokens.stage = "idle"
  /\ sending = "none" /\ return.call = "none" /\ return.mine = return.granted
  => data.tokens = truth.balance \/ unseen

\* What the return from a checkout says is so: "added" n of them by this confirmation,
\* the whole purchase credited once.
CheckoutIsTold ==
  /\ return.says \in {"added", "replay"} => truth.purchase = "paid" /\ truth.credited = Bundle
  /\ return.says = "added" => return.granted \in 1 .. Bundle
  /\ return.says = "replay" => return.granted = 0

\* Verification is announced to who saw it pending and not withdrawn, and to nobody else.
VerificationIsTold ==
  announcer.announced <=> announcer.sawPending /\ Status(data.links) = "verified"

\* The home tells its player the truth (and the variables are of their types).
HomeIsHonest ==
  /\ AccountHomeTypeOK /\ TokensGoWhereShown /\ LiftingIsPaid /\ BalanceIsCurrent
  /\ CheckoutIsTold /\ VerificationIsTold

=============================================================================
