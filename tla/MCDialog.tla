------------------------------- MODULE MCDialog -------------------------------
(* From an update of Telegram to what it sets off: the deduplication of      *)
(* updates on two instances, the settings that decide who may go on, and the *)
(* dialogues with one user; from a message of QStash to a handler; and from  *)
(* a link to a file; and the instance lock that the deduplication relies on,  *)
(* with two jobs on one instance and one on another.  A behaviour is of one  *)
(* of them.                                                                  *)
EXTENDS Dialog, InstanceLock, Inbox, AccessGuard, WebhookForward, ExternalDownload, TLC

CONSTANTS i1, i2, w1, w2, w3

VARIABLE part

\* Two jobs on one instance and one on another
Homes == (w1 :> i1) @@ (w2 :> i1) @@ (w3 :> i2)

DispatchInit ==
  /\ part \in {"inbox", "guard", "dialog", "webhook", "link", "lock"}
  /\ DialogInit /\ InboxInit /\ GuardInit /\ RouteInit /\ ExternalInit /\ Init
  /\ kind = "mode" => part = "guard"
  /\ leads = CHOOSE n \in Hosts : TRUE

Of(name, A, others) == part = name /\ A /\ UNCHANGED others

DispatchNext ==
  /\ UNCHANGED part
  /\ \/ Of("inbox", InboxNext, <<dialogVars, guardVars, routeVars, externalVars, vars>>)
     \/ Of("guard", GuardNext, <<dialogVars, inboxVars, routeVars, externalVars, vars>>)
     \/ Of("dialog", DialogNext, <<inboxVars, guardVars, routeVars, externalVars, vars>>)
     \/ Of("webhook", RouteNext, <<dialogVars, inboxVars, guardVars, externalVars, vars>>)
     \/ Of("link", ExternalNext, <<dialogVars, inboxVars, guardVars, routeVars, vars>>)
     \/ Of("lock", Next, <<dialogVars, inboxVars, guardVars, routeVars, externalVars>>)

DispatchSpec ==
  DispatchInit /\ [][DispatchNext]_<<part, dialogVars, inboxVars, guardVars, routeVars, externalVars, vars>>

=============================================================================
