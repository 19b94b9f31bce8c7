----------------------------- MODULE PushControl ----------------------------
(***************************************************************************)
(* Push alerts on one browser that several people may use (apps/web:       *)
(* push-toggle.tsx, lib/push.ts; apps/api: routes/notifications.ts).       *)
(* Three things have to agree: the browser's subscription, the server's    *)
(* row for its endpoint, and what the toggle on the inbox page says.  Every *)
(* call may fail, or take effect with its answer lost; a page that is left *)
(* lets its calls run on; signing out tears the row down first.            *)
(***************************************************************************)
EXTENDS Naturals, FiniteSets

CONSTANTS
  People,         \* accounts
  Anon,           \* no session
  MaxEndpoints,   \* bound: subscriptions the browser ever makes
  MaxMishaps      \* bound: calls that fail or whose answer is lost

ASSUME PushControlAssumption ==
  MaxEndpoints \in Nat /\ MaxMishaps \in Nat /\ Anon \notin People

VARIABLES
  capable,       \* "push", "ios" (only once installed) or "bare"
  permission,    \* Notification.permission
  session,       \* whose session the browser carries
  subscription,  \* endpoint of the PushSubscription, 0 if there is none
  endpoints,     \* how many there have been
  subscribed,    \* push_subscriptions
  toggle,        \* what the page shows, "absent" if it is another page
  tasks,         \* what toggles, on this page or left, still wait for
  leaving,       \* the sign-out under way: its next step, or "no"
  mishaps,
  unsure,        \* history: whether something the toggle cannot know happened
  slipped        \* history: people whose row may outlive their sign-out

pushControlVars == <<capable, permission, session, subscription, endpoints, subscribed,
                     toggle, tasks, leaving, mishaps, unsure, slipped>>

Ops == {"reconcile", "enable", "disable"}
Task == [op : Ops, step : {"browser", "status", "prompt", "subscribe", "server"},
         endpoint : 0 .. MaxEndpoints, shown : BOOLEAN]

PushControlTypeOK ==
  /\ capable \in {"push", "ios", "bare"} /\ permission \in {"default", "granted", "denied"}
  /\ session \in People \cup {Anon}
  /\ {subscription, endpoints} \subseteq 0 .. MaxEndpoints
  /\ subscribed \subseteq [endpoint : 1 .. MaxEndpoints, user : People, live : BOOLEAN]
  /\ toggle \in {"absent", "working", "unsupported", "ios", "denied", "off", "on", "error"}
  /\ tasks \subseteq Task /\ leaving \in {"no", "teardown", "server", "browser", "session"}
  /\ mishaps \in 0 .. MaxMishaps /\ unsure \in BOOLEAN /\ slipped \subseteq People

PushControlInit ==
  /\ capable \in {"push", "ios", "bare"} /\ permission = "default" /\ session = Anon
  /\ subscription = 0 /\ endpoints = 0 /\ subscribed = {} /\ toggle = "absent"
  /\ tasks = {} /\ leaving = "no" /\ mishaps = 0 /\ unsure = FALSE /\ slipped = {}

-----------------------------------------------------------------------------
\* The server's rows, one per endpoint.

RowsAt(e) == {r \in subscribed : r.endpoint = e}
RowActive(u, e) == [endpoint |-> e, user |-> u, live |-> TRUE] \in subscribed
\* The row moves to whoever subscribes, and is live again.
Upserted(e) == (subscribed \ RowsAt(e)) \cup {[endpoint |-> e, user |-> session, live |-> TRUE]}
\* Only a row of the session's user.
Deleted(e) == subscribed \ {r \in RowsAt(e) : r.user = session}

\* What becomes of a call that changes the rows: it works, works with its answer
\* lost, or fails; without a session it is refused.
Call(new, answered) ==
  \/ session # Anon /\ answered /\ subscribed' = new /\ UNCHANGED mishaps
  \/ /\ session # Anon /\ ~answered
     /\ mishaps < MaxMishaps /\ mishaps' = mishaps + 1
     /\ subscribed' \in {new, subscribed}
  \/ session = Anon /\ ~answered /\ UNCHANGED <<subscribed, mishaps>>

Mishap == mishaps < MaxMishaps /\ mishaps' = mishaps + 1

-----------------------------------------------------------------------------
\* The toggle.  Only the task of the toggle on the page changes what is shown; an
\* unmounted one goes on unseen.

Step(t, next) == tasks' = (tasks \ {t}) \cup {next}
SettlesAs(t, says) ==
  /\ tasks' = tasks \ {t}
  /\ toggle' = IF t.shown THEN says ELSE toggle
Unseen(t) == ~t.shown

StartsTask(op, step) ==
  /\ toggle' = "working"
  /\ tasks' = tasks \cup {[op |-> op, step |-> step, endpoint |-> 0, shown |-> TRUE]}

\* On mount, and for "Try again".
Reconcile ==
  /\ toggle \in {"absent", "error"} /\ session # Anon /\ Cardinality(tasks) < 2
  /\ unsure' = (tasks # {} \/ leaving # "no")
  /\ IF capable # "push"
     THEN toggle' = (IF capable = "ios" THEN "ios" ELSE "unsupported") /\ UNCHANGED tasks
     ELSE IF permission = "denied"
          THEN toggle' = "denied" /\ UNCHANGED tasks
          ELSE StartsTask("reconcile", "browser")
  /\ UNCHANGED <<capable, permission, session, subscription, endpoints, subscribed,
                 leaving, mishaps, slipped>>

\* Faulty variant of ReadsBrowser: the browser's word is taken for the server's.
TrustsBrowser(t) ==
  /\ t.op = "reconcile" /\ t.step = "browser"
  /\ SettlesAs(t, IF subscription = 0 THEN "off" ELSE "on")
  /\ UNCHANGED <<capable, permission, session, subscription, endpoints, subscribed,
                 leaving, mishaps, unsure, slipped>>

\* Browser state alone is not the truth.
ReadsBrowser(t) ==
  /\ t.op = "reconcile" /\ t.step = "browser"
  /\ IF subscription = 0
     THEN SettlesAs(t, "off")
     ELSE Step(t, [t EXCEPT !.step = "status", !.endpoint = subscription]) /\ UNCHANGED toggle
  /\ UNCHANGED <<capable, permission, session, subscription, endpoints, subscribed,
                 leaving, mishaps, unsure, slipped>>

AsksStatus(t) ==
  /\ t.op = "reconcile" /\ t.step = "status"
  /\ \/ /\ session # Anon /\ UNCHANGED <<mishaps, unsure>>
        /\ SettlesAs(t, IF RowActive(session, t.endpoint) THEN "on" ELSE "off")
     \/ /\ IF session = Anon THEN UNCHANGED mishaps ELSE Mishap
        /\ SettlesAs(t, "off") /\ unsure' = TRUE
  /\ UNCHANGED <<capable, permission, session, subscription, endpoints, subscribed,
                 leaving, slipped>>

Enable ==
  /\ toggle = "off" /\ StartsTask("enable", "prompt")
  /\ UNCHANGED <<capable, permission, session, subscription, endpoints, subscribed,
                 leaving, mishaps, unsure, slipped>>

Prompts(t, answer) ==
  /\ t.op = "enable" /\ t.step = "prompt"
  /\ permission # "default" => answer = permission
  /\ permission' = answer
  /\ IF answer = "granted"
     THEN Step(t, [t EXCEPT !.step = "subscribe"]) /\ UNCHANGED toggle
     ELSE SettlesAs(t, IF answer = "denied" THEN "denied" ELSE "off")
  /\ UNCHANGED <<capable, session, subscription, endpoints, subscribed, leaving, mishaps,
                 unsure, slipped>>

\* A service worker, a key and the subscription there is, or else a new one.
Subscribes(t) ==
  /\ t.op = "enable" /\ t.step = "subscribe"
  /\ \/ /\ subscription # 0 \/ endpoints < MaxEndpoints
        /\ LET fresh == subscription = 0
               e == IF fresh THEN endpoints + 1 ELSE subscription
           IN  /\ subscription' = e
               /\ endpoints' = IF fresh THEN endpoints + 1 ELSE endpoints
               /\ Step(t, [t EXCEPT !.step = "server", !.endpoint = e])
        /\ UNCHANGED <<toggle, mishaps>>
     \/ Mishap /\ SettlesAs(t, "error") /\ UNCHANGED <<subscription, endpoints>>
  /\ UNCHANGED <<capable, permission, session, subscribed, leaving, unsure, slipped>>

Registers(t) ==
  /\ t.op = "enable" /\ t.step = "server"
  /\ \/ Call(Upserted(t.endpoint), TRUE) /\ SettlesAs(t, "on")
     \/ Call(Upserted(t.endpoint), FALSE) /\ SettlesAs(t, "error")
  /\ unsure' = (unsure \/ Unseen(t))
  /\ slipped' = IF leaving = "no" THEN slipped ELSE slipped \cup ({session} \ {Anon})
  /\ UNCHANGED <<capable, permission, session, subscription, endpoints, leaving>>

Disable ==
  /\ toggle = "on"
  /\ IF subscription = 0
     THEN toggle' = "off" /\ UNCHANGED tasks
     ELSE /\ toggle' = "working"
          /\ tasks' = tasks \cup {[op |-> "disable", step |-> "server",
                                   endpoint |-> subscription, shown |-> TRUE]}
  /\ UNCHANGED <<capable, permission, session, subscription, endpoints, subscribed,
                 leaving, mishaps, unsure, slipped>>

\* Server first: without its answer the browser's subscription must stay, because
\* it holds the only endpoint that can delete the row.
DropsRow(t) ==
  /\ t.op = "disable" /\ t.step = "server"
  /\ \/ Call(Deleted(t.endpoint), TRUE) /\ Step(t, [t EXCEPT !.step = "browser"])
        /\ UNCHANGED toggle
     \/ Call(Deleted(t.endpoint), FALSE) /\ SettlesAs(t, "error")
  /\ unsure' = (unsure \/ Unseen(t))
  /\ UNCHANGED <<capable, permission, session, subscription, endpoints, leaving, slipped>>

DropsSubscription(t) ==
  /\ t.op = "disable" /\ t.step = "browser"
  /\ \/ subscription' = 0 /\ SettlesAs(t, "off") /\ UNCHANGED mishaps
     \/ Mishap /\ SettlesAs(t, "error") /\ UNCHANGED subscription
  /\ unsure' = (unsure \/ Unseen(t))
  /\ UNCHANGED <<capable, permission, session, endpoints, subscribed, leaving, slipped>>

\* To another page: the toggle is gone, its calls are not.
LeavesInbox ==
  /\ toggle # "absent" /\ toggle' = "absent"
  /\ tasks' = {[t EXCEPT !.shown = FALSE] : t \in tasks}
  /\ UNCHANGED <<capable, permission, session, subscription, endpoints, subscribed,
                 leaving, mishaps, unsure, slipped>>

-----------------------------------------------------------------------------
\* signOutAndTeardownPush, from the menu of any page.

SomeoneEnables == \E t \in tasks : t.op = "enable"
LeavesTo(step) == leaving' = step

SignsOut ==
  /\ leaving = "no" /\ session # Anon /\ LeavesTo("teardown")
  /\ UNCHANGED <<capable, permission, session, subscription, endpoints, subscribed,
                 toggle, tasks, mishaps, unsure, slipped>>

\* deleteAccount first: the rows and the session go with the account.
DeletesAccount ==
  /\ leaving = "no" /\ session # Anon
  /\ subscribed' = {r \in subscribed : r.user # session}
  /\ session' = Anon /\ unsure' = TRUE /\ LeavesTo("teardown")
  /\ UNCHANGED <<capable, permission, subscription, endpoints, toggle, tasks, mishaps, slipped>>

\* Which subscription there is; a lookup that fails reads as none.
LooksUp ==
  /\ leaving = "teardown"
  /\ \/ LeavesTo(IF subscription = 0 THEN "session" ELSE "server")
        /\ UNCHANGED <<mishaps, slipped>>
     \/ /\ subscription # 0 /\ Mishap /\ LeavesTo("session")
        /\ slipped' = slipped \cup ({session} \ {Anon})
  /\ UNCHANGED <<capable, permission, session, subscription, endpoints, subscribed,
                 toggle, tasks, unsure>>

TearsDownRow ==
  /\ leaving = "server"
  /\ \/ Call(Deleted(subscription), TRUE) /\ LeavesTo("browser") /\ UNCHANGED slipped
     \/ /\ Call(Deleted(subscription), FALSE) /\ LeavesTo("session")
        /\ slipped' = slipped \cup ({session} \ {Anon})
  /\ unsure' = TRUE
  /\ UNCHANGED <<capable, permission, session, subscription, endpoints, toggle, tasks>>

TearsDownSubscription ==
  /\ leaving = "browser" /\ LeavesTo("session")
  /\ \/ subscription' = 0 /\ UNCHANGED mishaps
     \/ Mishap /\ UNCHANGED subscription
  /\ UNCHANGED <<capable, permission, session, endpoints, subscribed, toggle, tasks,
                 unsure, slipped>>

\* The page is loaded anew whether the sign-out worked or not.
EndsSession ==
  /\ leaving = "session" /\ LeavesTo("no")
  /\ \/ session' = Anon /\ UNCHANGED mishaps
     \/ session # Anon /\ Mishap /\ UNCHANGED session
  /\ slipped' = IF SomeoneEnables THEN slipped \cup ({session} \ {Anon}) ELSE slipped
  /\ toggle' = "absent" /\ tasks' = {}
  /\ UNCHANGED <<capable, permission, subscription, endpoints, subscribed, unsure>>

SignsIn(u) ==
  /\ session = Anon /\ leaving = "no" /\ toggle = "absent" /\ tasks = {}
  /\ session' = u /\ slipped' = slipped \ {u}
  /\ UNCHANGED <<capable, permission, subscription, endpoints, subscribed, toggle, tasks,
                 leaving, mishaps, unsure>>

\* The session ends while the page is open: nobody signed out, nothing is torn down.
SessionExpires ==
  /\ session # Anon /\ session' = Anon /\ unsure' = TRUE
  /\ slipped' = slipped \cup {session}
  /\ UNCHANGED <<capable, permission, subscription, endpoints, subscribed, toggle, tasks,
                 leaving, mishaps>>

\* The notifier retires a row after repeated failures (module Notices).
RetiresRow(r) ==
  /\ r.live /\ subscribed' = (subscribed \ {r}) \cup {[r EXCEPT !.live = FALSE]}
  /\ unsure' = TRUE
  /\ UNCHANGED <<capable, permission, session, subscription, endpoints, toggle, tasks,
                 leaving, mishaps, slipped>>

PushControlNext ==
  \/ Reconcile \/ Enable \/ Disable \/ LeavesInbox
  \/ \E t \in tasks :
       \/ ReadsBrowser(t) \/ AsksStatus(t) \/ Subscribes(t) \/ Registers(t)
       \/ DropsRow(t) \/ DropsSubscription(t)
       \/ \E answer \in {"default", "granted", "denied"} : Prompts(t, answer)
  \/ SignsOut \/ DeletesAccount \/ LooksUp \/ TearsDownRow \/ TearsDownSubscription
  \/ EndsSession \/ SessionExpires
  \/ \E u \in People : SignsIn(u)
  \/ \E r \in subscribed : RetiresRow(r)

PushControlSpec == PushControlInit /\ [][PushControlNext]_pushControlVars

-----------------------------------------------------------------------------
\* Properties.

\* Alerts for u reach this browser.
Reaches(u) == subscription # 0 /\ RowActive(u, subscription)

\* A toggle that is settled says whether alerts reach who is signed in, unless
\* something happened that it was not told of.
ToggleTellsTheTruth ==
  ~unsure /\ session # Anon =>
    /\ toggle = "on" => Reaches(session)
    /\ toggle = "off" => ~Reaches(session)

\* Nobody who signed out is still pushed to on a browser that others use, unless
\* the teardown failed on the way, raced a toggle being turned on, or there was
\* no sign-out at all.
NobodyElsesNews == \A u \in People \ {session} : Reaches(u) => u \in slipped

\* What is said of push alerts is so, and they end with the session (and the
\* variables are of their types).
PushIsAsSaid == PushControlTypeOK /\ ToggleTellsTheTruth /\ NobodyElsesNews

=============================================================================
