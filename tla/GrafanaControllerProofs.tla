------------------------ MODULE GrafanaControllerProofs ------------------------
(***************************************************************************)
(* Proofs about the Grafana controller and the channel of its events: for any  *)
(* number of consumers, a consumer waits in the channel exactly while it has no  *)
(* value in hand, and what it has in hand is always a state.                  *)
(***************************************************************************)
EXTENDS GrafanaController, FiniteSetTheorems, SequenceTheorems, TLAPS

\* What the controller keeps.
ControllerTypes ==
    /\ cr \in Urls \cup {NoCR} /\ healthy \in BOOLEAN /\ wanted \subseteq Dashboards
    /\ status \in Status /\ touched \in BOOLEAN /\ due \in BOOLEAN
    /\ pc \in Phases /\ draft \in [status : Status, url : Urls \cup {NoCR}]
    /\ msg \in States \cup {Nothing} /\ requeue \in BOOLEAN
    /\ known \in [Dashboards -> References] /\ synced \in BOOLEAN
    /\ events \in 0..MaxEvents

\* With a resource in hand it has a url, and what it sends is a state.
InHand == /\ pc \in {"success", "publish"} => draft.url \in Urls
          /\ pc = "send" => msg \in States

\* The channel: every consumer waits in it once, or has a value in hand.
ChannelTypes ==
    /\ buffer \in Seq(States) /\ Len(buffer) <= 1
    /\ waiting \in Seq(Consumers)
    /\ got \in [Consumers -> States \cup {Nothing}]
    /\ state \in [Consumers -> States]
Once == \A i, k \in DOMAIN waiting : waiting[i] = waiting[k] => i = k
Waits(c) == \E i \in DOMAIN waiting : waiting[i] = c
Handed == \A c \in Consumers : got[c] = Nothing <=> Waits(c)

Inductive == ControllerTypes /\ InHand /\ ChannelTypes /\ Once /\ Handed

-----------------------------------------------------------------------------
(* The first state.                                                         *)

\* A sequence of as many different consumers as there are has all of them.
LEMMA AllWait ==
    ASSUME NEW s \in [1..Cardinality(Consumers) -> Consumers],
           \A i, k \in DOMAIN s : s[i] = s[k] => i = k
    PROVE  /\ s \in Seq(Consumers)
           /\ \A c \in Consumers : \E i \in DOMAIN s : s[i] = c
<1> DEFINE n == Cardinality(Consumers)
<1>1. n \in Nat
    BY ConsumersAssumption, FS_CardinalityType
<1>2. IsFiniteSet(1..n) /\ Cardinality(1..n) = n
    BY <1>1, FS_Interval
<1>3. s \in Injection(1..n, Consumers)
    BY DEF Injection, IsInjective
<1>4. s \in Surjection(1..n, Consumers)
    BY <1>2, <1>3, ConsumersAssumption, FS_Injection
<1> QED BY <1>1, <1>4 DEF Surjection

\* At the start every consumer waits.
LEMMA InitInductive == Init => Inductive
<1> SUFFICES ASSUME Init PROVE Inductive
    OBVIOUS
<1>1. ControllerTypes
  <2>1. cr \in Urls \cup {NoCR} /\ healthy \in BOOLEAN /\ wanted \subseteq Dashboards
    BY DEF Init
  <2>2. status \in Status /\ draft \in [status : Status, url : Urls \cup {NoCR}]
    BY DEF Init, NoStatus, NoDraft, Status
  <2>3. pc \in Phases /\ msg \in States \cup {Nothing} /\ requeue \in BOOLEAN
        /\ touched \in BOOLEAN /\ due \in BOOLEAN
    BY DEF Init, Phases
  <2>4. known \in [Dashboards -> References] /\ synced \in BOOLEAN
    BY DEF Init, References
  <2>5. events \in 0..MaxEvents
    BY EventsAssumption DEF Init
  <2> QED BY <2>1, <2>2, <2>3, <2>4, <2>5 DEF ControllerTypes
<1>2. InHand
    BY DEF Init, InHand
<1>3. waiting \in Seq(Consumers) /\ Once /\ \A c \in Consumers : Waits(c)
    BY AllWait DEF Init, Once, Waits
<1>4. ChannelTypes
    BY <1>3 DEF Init, ChannelTypes, States
<1>5. Handed
    BY <1>3 DEF Init, Handed
<1> QED BY <1>1, <1>2, <1>3, <1>4, <1>5 DEF Inductive

-----------------------------------------------------------------------------
(* The controller.                                                          *)

\* Steps that leave the channel alone.
LEMMA ChannelFrame ==
    ASSUME ChannelTypes, Once, Handed, UNCHANGED channel
    PROVE  ChannelTypes' /\ Once' /\ Handed'
BY DEF ChannelTypes, Once, Handed, Waits, channel

\* The status is one, whatever the controller makes of it.
LEMMA StatusTypes ==
    ASSUME ControllerTypes
    PROVE  SuccessStatus \in Status /\ FailingStatus \in Status /\ NoStatus \in Status
BY DEF ControllerTypes, SuccessStatus, FailingStatus, NoStatus, Status, Installed

\* Changes of the environment and failing calls stay within their bound.
LEMMA EventTypes ==
    ASSUME events \in 0..MaxEvents, Event \/ Quiet
    PROVE  events' \in 0..MaxEvents
BY EventsAssumption DEF Event, Quiet

\* The environment.
LEMMA EnvironmentInductive ==
    ASSUME Inductive, ChangeGrafana \/ ChangeHealth \/ ChangeDashboards
    PROVE  Inductive'
<1> USE StatusTypes, EventTypes DEF Inductive
<1>1. UNCHANGED channel
    BY DEF ChangeGrafana, ChangeHealth, ChangeDashboards
<1>2. ControllerTypes' /\ InHand'
  <2>1. CASE ChangeGrafana
    BY <2>1 DEF ChangeGrafana, ControllerTypes, InHand, reconcile
  <2>2. CASE ChangeHealth
    BY <2>2 DEF ChangeHealth, ControllerTypes, InHand, reconcile
  <2>3. CASE ChangeDashboards
    BY <2>3 DEF ChangeDashboards, ControllerTypes, InHand, reconcile
  <2> QED BY <2>1, <2>2, <2>3
<1> QED BY <1>1, <1>2, ChannelFrame

\* Reconcile up to the value it sends.
LEMMA ReconcileInductive ==
    ASSUME Inductive, ReconcileGone \/ ReconcileFound \/ ManageSuccess \/ Publish \/ ManageError
    PROVE  Inductive'
<1> USE StatusTypes, EventTypes DEF Inductive
<1>1. UNCHANGED channel
    BY DEF ReconcileGone, ReconcileFound, ManageSuccess, Publish, ManageError
<1>2. ControllerTypes' /\ InHand'
  <2>1. CASE ReconcileGone
    BY <2>1 DEF ReconcileGone, ControllerTypes, InHand, environment, Phases, References, States
  <2>2. CASE ReconcileFound
    BY <2>2 DEF ReconcileFound, ControllerTypes, InHand, environment, Phases
  <2>3. CASE ManageSuccess
    BY <2>3 DEF ManageSuccess, Store, ControllerTypes, InHand, environment, Phases
  <2>4. CASE Publish
    BY <2>4 DEF Publish, SendUrl, ControllerTypes, InHand, environment, Phases, States
  <2>5. CASE ManageError
    <3>1. pc' \in {"idle", "send"} /\ (pc' = "send" => msg' \in States) /\ msg' \in States \cup {Nothing}
      BY <2>5 DEF ManageError, GiveUp, SendNotReady, ControllerTypes, States
    <3>2. status' \in Status /\ due' \in BOOLEAN /\ events' \in 0..MaxEvents
      BY <2>5 DEF ManageError, GiveUp, Store, ControllerTypes
    <3>3. draft' \in [status : Status, url : Urls \cup {NoCR}] /\ requeue' \in BOOLEAN
      <4>1. draft' \in {draft, NoDraft} /\ requeue' \in {requeue, TRUE}
        BY <2>5 DEF ManageError, GiveUp, SendNotReady
      <4>2. NoDraft \in [status : Status, url : Urls \cup {NoCR}]
        BY DEF NoDraft
      <4> QED BY <4>1, <4>2 DEF ControllerTypes
    <3>4. known' \in [Dashboards -> References]
      BY <2>5 DEF ManageError, GiveUp, Invalidated, ControllerTypes, References
    <3>5. UNCHANGED <<environment, touched, synced>>
      BY <2>5 DEF ManageError
    <3> QED BY <3>1, <3>2, <3>3, <3>4, <3>5 DEF ControllerTypes, InHand, environment, Phases
  <2> QED BY <2>1, <2>2, <2>3, <2>4, <2>5
<1> QED BY <1>1, <1>2, ChannelFrame

-----------------------------------------------------------------------------
(* The channel.                                                             *)

\* A value that is handed over takes its receiver out of the channel.
LEMMA SendInductive ==
    ASSUME Inductive, Send
    PROVE  Inductive'
<1> USE DEF Inductive
<1>1. ControllerTypes' /\ InHand'
    BY DEF Send, ControllerTypes, InHand, environment, Phases, NoDraft, NoStatus, Status
<1>2. msg \in States /\ UNCHANGED state
    BY DEF Send, InHand
<1>3. CASE waiting # <<>> /\ got' = [got EXCEPT ![Head(waiting)] = msg]
           /\ waiting' = Tail(waiting) /\ UNCHANGED buffer
  <2>1. /\ Head(waiting) \in Consumers /\ waiting' \in Seq(Consumers)
        /\ Len(waiting) \in Nat \ {0} /\ Len(waiting') = Len(waiting) - 1
        /\ DOMAIN waiting = 1..Len(waiting) /\ DOMAIN waiting' = 1..(Len(waiting) - 1)
        /\ Head(waiting) = waiting[1] /\ \A i \in DOMAIN waiting' : waiting'[i] = waiting[i+1]
    BY <1>3, HeadTailProperties DEF ChannelTypes
  <2>2. Once'
    BY <2>1 DEF Once
  <2>3. \A c \in Consumers : Waits(c)' <=> Waits(c) /\ c # Head(waiting)
    <3>1. ASSUME NEW c \in Consumers, NEW i \in DOMAIN waiting, waiting[i] = c, c # Head(waiting)
          PROVE  Waits(c)'
      <4>1. i - 1 \in DOMAIN waiting' /\ waiting'[i-1] = c
        BY <2>1, <3>1
      <4> QED BY <4>1 DEF Waits
    <3>2. ASSUME NEW c \in Consumers, NEW i \in DOMAIN waiting', waiting'[i] = c
          PROVE  Waits(c) /\ c # Head(waiting)
      <4>1. i + 1 \in DOMAIN waiting /\ waiting[i+1] = c /\ 1 \in DOMAIN waiting
        BY <2>1, <3>2
      <4>2. c # waiting[1]
        BY <2>1, <4>1 DEF Once
      <4> QED BY <2>1, <4>1, <4>2 DEF Waits
    <3> QED BY <3>1, <3>2 DEF Waits
  <2>4. Handed'
    BY <1>2, <1>3, <2>1, <2>3, NothingAssumption DEF Handed, ChannelTypes
  <2> QED BY <1>1, <1>2, <1>3, <2>1, <2>2, <2>4 DEF ChannelTypes
<1>4. CASE waiting = <<>> /\ HasRoom /\ buffer' = Append(buffer, msg) /\ UNCHANGED <<waiting, got>>
  <2>1. buffer' \in Seq(States) /\ Len(buffer') <= 1
    BY <1>2, <1>4, AppendProperties DEF ChannelTypes, HasRoom, Capacity
  <2> QED BY <1>1, <1>2, <1>4, <2>1 DEF ChannelTypes, Once, Handed, Waits
<1> QED BY <1>3, <1>4 DEF Send

\* A consumer stores what it has in hand and takes the next value, or waits.
LEMMA ReceiveInductive ==
    ASSUME Inductive, NEW c \in Consumers, Receive(c)
    PROVE  Inductive'
<1> USE DEF Inductive
<1>1. ControllerTypes' /\ InHand'
    BY DEF Receive, ControllerTypes, InHand, environment, reconcile
<1>2. got[c] \in States /\ ~Waits(c) /\ state' = [state EXCEPT ![c] = got[c]]
    BY DEF Receive, ChannelTypes, Handed
<1>3. CASE buffer # <<>> /\ got' = [got EXCEPT ![c] = Head(buffer)] /\ buffer' = Tail(buffer)
           /\ UNCHANGED waiting
  <2>1. Head(buffer) \in States /\ buffer' \in Seq(States) /\ Len(buffer') <= 1
    BY <1>3, HeadTailProperties DEF ChannelTypes
  <2>2. Handed'
    BY <1>2, <1>3, <2>1, NothingAssumption DEF Handed, Waits, ChannelTypes
  <2> QED BY <1>1, <1>2, <1>3, <2>1, <2>2 DEF ChannelTypes, Once
<1>4. CASE got' = [got EXCEPT ![c] = Nothing] /\ waiting' = Append(waiting, c) /\ UNCHANGED buffer
  <2>1. /\ waiting' \in Seq(Consumers) /\ Len(waiting) \in Nat /\ Len(waiting') = Len(waiting) + 1
        /\ DOMAIN waiting = 1..Len(waiting) /\ DOMAIN waiting' = 1..(Len(waiting) + 1)
        /\ waiting'[Len(waiting) + 1] = c /\ \A i \in DOMAIN waiting : waiting'[i] = waiting[i]
    BY <1>4, AppendProperties DEF ChannelTypes
  <2>2. Once'
    BY <1>2, <2>1 DEF Once, Waits
  <2>3. \A d \in Consumers : Waits(d)' <=> Waits(d) \/ d = c
    BY <2>1 DEF Waits
  <2>4. Handed'
    BY <1>4, <2>3 DEF Handed, ChannelTypes
  <2> QED BY <1>1, <1>2, <1>4, <2>1, <2>2, <2>4 DEF ChannelTypes
<1> QED BY <1>3, <1>4 DEF Receive

\* A dashboard pass.
LEMMA PassInductive ==
    ASSUME Inductive, NEW c \in DashboardConsumers, Pass(c)
    PROVE  Inductive'
<1> USE DEF Inductive
<1>1. UNCHANGED <<environment, status, touched, due, reconcile, channel, events>>
      /\ known' \in [Dashboards -> References] /\ synced' \in BOOLEAN
    BY DEF Pass, Processed, References, ControllerTypes
<1>2. ControllerTypes' /\ InHand'
    BY <1>1 DEF ControllerTypes, InHand, environment, reconcile
<1> QED BY <1>1, <1>2, ChannelFrame

\* Every step keeps the invariant.
LEMMA NextInductive == Inductive /\ [Next]_vars => Inductive'
<1> SUFFICES ASSUME Inductive, [Next]_vars PROVE Inductive'
    OBVIOUS
<1>1. CASE ChangeGrafana \/ ChangeHealth \/ ChangeDashboards
    BY <1>1, EnvironmentInductive
<1>2. CASE Reconcile
    BY <1>2, ReconcileInductive, SendInductive DEF Reconcile
<1>3. ASSUME NEW c \in Consumers, Receive(c) PROVE Inductive'
    BY <1>3, ReceiveInductive
<1>4. ASSUME NEW c \in DashboardConsumers, Pass(c) PROVE Inductive'
    BY <1>4, PassInductive
<1>5. CASE UNCHANGED vars
    BY <1>5, ChannelFrame DEF vars, channel, Inductive, ControllerTypes, InHand
<1> QED BY <1>1, <1>2, <1>3, <1>4, <1>5 DEF Next

\* The types are kept, and no consumer is ever both in the channel and at work on
\* a value, or in neither place.
THEOREM TypesKept == Spec => []TypeOK
<1>1. Inductive => TypeOK
    BY DEF Inductive, ControllerTypes, ChannelTypes, Handed, Waits, TypeOK
<1> QED BY <1>1, InitInductive, NextInductive, PTL DEF Spec
=============================================================================
