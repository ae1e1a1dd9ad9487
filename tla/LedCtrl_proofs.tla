--------------------------- MODULE LedCtrl_proofs ---------------------------
(***************************************************************************)
(* Proofs about the LED control service: the mirror the central reads and  *)
(* what a subscriber has learnt, for every order of writes, reports and    *)
(* lost links.                                                             *)
(***************************************************************************)
EXTENDS LedCtrl, TLAPS

\* The LED a report deals with is one of those it has left.
LEMMA CurrentProperties ==
  ASSUME todo \subseteq Leds, todo # {}
  PROVE  Current \in todo
BY DEF Current, Leds

\* A notification concerns one LED; it tells the central that subscribed to
\* that LED, or fails.
LEMMA NotifiedProperties ==
  ASSUME NEW d \in Leds, NEW v \in Levels, NEW sent \in BOOLEAN, Notified(d, v, sent),
         seen \in [Leds -> Levels \union {Skip}], unheard \subseteq notify_enabled
  PROVE  /\ seen' \in [Leds -> Levels \union {Skip}]
         /\ unheard' \subseteq notify_enabled
         /\ d \in notify_enabled \ unheard' => seen'[d] = v
         /\ \A e \in Leds : e # d => seen'[e] = seen[e] /\ (e \in unheard' <=> e \in unheard)
BY DEF Notified

-----------------------------------------------------------------------------
(* Type correctness                                                          *)

\* Every variable keeps its range; a report in progress has LEDs left and
\* arguments for them.
THEOREM TypeCorrect == Spec => []TypeOK
<1>1. Init => TypeOK
  BY DEF Init, TypeOK, Leds, Levels, Skip
<1>2. TypeOK /\ [Next]_vars => TypeOK'
  <2>. SUFFICES ASSUME TypeOK, [Next]_vars
                PROVE  TypeOK'
    OBVIOUS
  <2>. USE DEF TypeOK, appVars, history
  <2>1. CASE Connect \/ Disconnect
    BY <2>1 DEF Connect, Disconnect
  <2>2. ASSUME NEW d \in Leds, Read(d)
        PROVE  TypeOK'
    BY <2>2 DEF Read
  <2>3. ASSUME NEW d \in Leds, NEW enabled \in BOOLEAN, CccChanged(d, enabled)
        PROVE  TypeOK'
    BY <2>3 DEF CccChanged
  <2>4. ASSUME NEW d \in Leds, NEW v \in Levels, NEW works \in BOOLEAN, NEW sent \in BOOLEAN,
             Write(d, v, works, sent)
        PROVE  TypeOK'
    <3>1. seen' \in [Leds -> Levels \union {Skip}] /\ unheard' \subseteq notify_enabled'
      BY <2>4, NotifiedProperties DEF Write
    <3>2. level' \in [Leds -> Levels] /\ mirror' \in [Leds -> Levels]
      BY <2>4 DEF Write
    <3>3. raced' \subseteq Leds /\ excused' \subseteq Leds
      BY <2>4 DEF Write
    <3>. QED  BY <2>4, <3>1, <3>2, <3>3 DEF Write
  <2>5. ASSUME NEW new \in [Leds -> Levels \union {Skip}], Button(new)
        PROVE  TypeOK'
    <3>1. level' \in [Leds -> Levels]
      BY <2>5 DEF Button
    <3>2. todo' \subseteq Leds /\ todo' # {} /\ \A d \in todo' : args'[d] # Skip
      BY <2>5 DEF Button
    <3>. QED  BY <2>5, <3>1, <3>2 DEF Button
  <2>6. CASE GetActive
    <3>1. [d \in Leds |-> Skip] \in [Leds -> Levels \union {Skip}]
      OBVIOUS
    <3>. QED  BY <2>6, <3>1 DEF GetActive
  <2>7. CASE SetMirror
    <3>1. Current \in todo /\ Current \in Leds
      BY <2>7, CurrentProperties DEF SetMirror
    <3>2. args[Current] \in Levels
      BY <3>1
    <3>3. mirror' \in [Leds -> Levels] /\ excused' \subseteq Leds
      BY <2>7, <3>1, <3>2 DEF SetMirror
    <3>. QED  BY <2>7, <3>3 DEF SetMirror
  <2>8. ASSUME NEW sent \in BOOLEAN, Notify(sent)
        PROVE  TypeOK'
    <3>1. Current \in todo /\ Current \in Leds
      BY <2>8, CurrentProperties DEF Notify
    <3>2. /\ seen' \in [Leds -> Levels \union {Skip}] /\ unheard' \subseteq notify_enabled'
          /\ refused' \subseteq Leds
      BY <2>8, <3>1, NotifiedProperties DEF Notify
    <3>3. [d \in Leds |-> Skip] \in [Leds -> Levels \union {Skip}]
      OBVIOUS
    <3>4. app' \in {"idle", "set"} /\ (app' = "idle" <=> todo' = {}) /\ todo' \subseteq todo
      BY <2>8, <3>1 DEF Notify
    <3>5. args' \in [Leds -> Levels \union {Skip}] /\ \A d \in todo' : args'[d] # Skip
      BY <2>8, <3>1, <3>3 DEF Notify
    <3>. QED  BY <2>8, <3>2, <3>4, <3>5 DEF Notify
  <2>9. CASE UNCHANGED vars
    BY <2>9 DEF vars
  <2>. QED
    BY <2>1, <2>2, <2>3, <2>4, <2>5, <2>6, <2>7, <2>8, <2>9 DEF Next, Central, Report
<1>. QED  BY <1>1, <1>2, PTL DEF Spec

-----------------------------------------------------------------------------
(* The mirror.  Between the button and its record the mirror is behind the   *)
(* LED; what makes the record right is that the LED still has the level the  *)
(* report was called with, unless the central wrote it in between.           *)

ArgumentsCurrent == \A d \in todo \ raced : level[d] = args[d]

RecordDone ==
  app = "notify" /\ Current \notin excused => mirror[Current] = level[Current]

MirrorInv == MirrorUnlessExcused /\ ArgumentsCurrent /\ RecordDone

\* What a read returns is the state of the LED, but for the three kinds of
\* change that are excused.
THEOREM MirrorUnlessExcusedHolds == Spec => []MirrorUnlessExcused
<1>1. Init => MirrorInv
  BY DEF Init, MirrorInv, MirrorUnlessExcused, ArgumentsCurrent, RecordDone
<1>2. TypeOK /\ MirrorInv /\ [Next]_vars => MirrorInv'
  <2>. SUFFICES ASSUME TypeOK, MirrorInv, [Next]_vars
                PROVE  MirrorInv'
    OBVIOUS
  <2>. USE DEF TypeOK, MirrorInv, MirrorUnlessExcused, ArgumentsCurrent, RecordDone, history
  <2>1. ASSUME UNCHANGED <<level, mirror, appVars, raced, excused>>
        PROVE  MirrorInv'
    BY <2>1 DEF appVars, Current
  <2>2. ASSUME NEW d \in Leds, NEW v \in Levels, NEW works \in BOOLEAN, NEW sent \in BOOLEAN,
             Write(d, v, works, sent)
        PROVE  MirrorInv'
    <3>1. Current' = Current /\ UNCHANGED appVars
      BY <2>2 DEF Write, appVars, Current
    <3>2. \A e \in Leds : e # d => mirror'[e] = mirror[e] /\ level'[e] = level[e]
      BY <2>2 DEF Write
    <3>3. d \notin excused' => mirror'[d] = level'[d]
      BY <2>2 DEF Write
    <3>4. \A e \in Leds : e # d => (e \in excused' <=> e \in excused)
      BY <2>2 DEF Write
    <3>5. raced \subseteq raced' /\ (d \in todo => d \in raced')
      BY <2>2 DEF Write
    <3>6. app = "notify" => Current \in Leds
      BY CurrentProperties
    <3>. QED  BY <3>1, <3>2, <3>3, <3>4, <3>5, <3>6 DEF appVars
  <2>3. ASSUME NEW new \in [Leds -> Levels \union {Skip}], Button(new)
        PROVE  MirrorInv'
    BY <2>3 DEF Button
  <2>4. CASE GetActive
    BY <2>4 DEF GetActive
  <2>5. CASE SetMirror
    <3>1. Current \in todo /\ Current \in Leds /\ Current' = Current
      BY <2>5, CurrentProperties DEF SetMirror, Current
    <3>2. \A e \in Leds : e # Current => mirror'[e] = mirror[e] /\ (e \in excused' <=> e \in excused)
      BY <2>5, <3>1 DEF SetMirror
    <3>3. Current \notin excused' => mirror'[Current] = level[Current]
      BY <2>5, <3>1 DEF SetMirror
    <3>4. UNCHANGED <<level, args, todo, raced>>
      BY <2>5 DEF SetMirror
    <3>. QED  BY <3>1, <3>2, <3>3, <3>4
  <2>6. ASSUME NEW sent \in BOOLEAN, Notify(sent)
        PROVE  MirrorInv'
    <3>1. Current \in todo /\ Current \in Leds
      BY <2>6, CurrentProperties DEF Notify
    <3>2. /\ UNCHANGED <<level, mirror, raced, excused>>
          /\ todo' = todo \ {Current} /\ (todo' # {} => args' = args)
          /\ app' # "notify" /\ app = "notify"
      BY <2>6, <3>1 DEF Notify
    <3>. QED  BY <3>1, <3>2
  <2>7. CASE Connect \/ Disconnect \/ (\E d \in Leds : Read(d))
             \/ \E d \in Leds, enabled \in BOOLEAN : CccChanged(d, enabled)
    BY <2>7, <2>1 DEF Connect, Disconnect, Read, CccChanged
  <2>8. CASE UNCHANGED vars
    BY <2>8, <2>1 DEF vars
  <2>. QED  BY <2>2, <2>3, <2>4, <2>5, <2>6, <2>7, <2>8 DEF Next, Central, Report
<1>3. MirrorInv => MirrorUnlessExcused
  BY DEF MirrorInv
<1>. QED  BY <1>1, <1>2, <1>3, TypeCorrect, PTL DEF Spec

-----------------------------------------------------------------------------
(* The subscriber                                                            *)

\* A subscribed central that knows a LED knows what a read would return, once
\* a change in progress is reported and unless the last notification failed.
\* Inductive as it stands.
THEOREM SubscriberInSyncHolds == Spec => []SubscriberInSync
<1>1. Init => SubscriberInSync
  BY DEF Init, SubscriberInSync
<1>2. TypeOK /\ SubscriberInSync /\ [Next]_vars => SubscriberInSync'
  <2>. SUFFICES ASSUME TypeOK, SubscriberInSync, [Next]_vars
                PROVE  SubscriberInSync'
    OBVIOUS
  <2>. USE DEF TypeOK, SubscriberInSync, appVars, history
  <2>0. Skip \notin Levels
    BY DEF Skip, Levels
  <2>1. CASE Connect \/ Disconnect
    BY <2>1 DEF Connect, Disconnect, Current
  <2>2. ASSUME NEW d \in Leds, Read(d)
        PROVE  SubscriberInSync'
    BY <2>2 DEF Read, Current
  <2>3. ASSUME NEW d \in Leds, NEW enabled \in BOOLEAN, CccChanged(d, enabled)
        PROVE  SubscriberInSync'
    <3>1. /\ seen'[d] = Skip
          /\ \A e \in Leds : e # d => seen'[e] = seen[e] /\ (e \in unheard' <=> e \in unheard)
      BY <2>3 DEF CccChanged
    <3>2. \A e \in notify_enabled' : e # d => e \in notify_enabled
      BY <2>3 DEF CccChanged
    <3>3. UNCHANGED <<mirror, app, todo>> /\ notify_enabled' \subseteq Leds
      BY <2>3 DEF CccChanged
    <3>. QED  BY <3>1, <3>2, <3>3 DEF Current
  <2>4. ASSUME NEW d \in Leds, NEW v \in Levels, NEW works \in BOOLEAN, NEW sent \in BOOLEAN,
             Write(d, v, works, sent)
        PROVE  SubscriberInSync'
    <3>1. d \in notify_enabled \ unheard' => seen'[d] = v
      BY <2>4, NotifiedProperties DEF Write
    <3>2. \A e \in Leds : e # d => seen'[e] = seen[e] /\ (e \in unheard' <=> e \in unheard)
      BY <2>4, NotifiedProperties DEF Write
    <3>3. mirror'[d] = v /\ \A e \in Leds : e # d => mirror'[e] = mirror[e]
      BY <2>4 DEF Write
    <3>4. UNCHANGED <<notify_enabled, app, todo>>
      BY <2>4 DEF Write
    <3>. QED  BY <3>1, <3>2, <3>3, <3>4 DEF Current
  <2>5. ASSUME NEW new \in [Leds -> Levels \union {Skip}], Button(new)
        PROVE  SubscriberInSync'
    BY <2>5 DEF Button
  <2>6. CASE GetActive
    BY <2>6 DEF GetActive
  <2>7. CASE SetMirror
    <3>1. Current \in Leds /\ Current' = Current /\ app' = "notify" /\ app # "notify"
      BY <2>7, CurrentProperties DEF SetMirror, Current
    <3>2. \A e \in Leds : e # Current => mirror'[e] = mirror[e]
      BY <2>7 DEF SetMirror
    <3>. QED  BY <2>7, <3>1, <3>2 DEF SetMirror
  <2>8. ASSUME NEW sent \in BOOLEAN, Notify(sent)
        PROVE  SubscriberInSync'
    <3>1. Current \in Leds
      BY <2>8, CurrentProperties DEF Notify
    <3>2. /\ Current \in notify_enabled \ unheard' => seen'[Current] = mirror[Current]
          /\ \A e \in Leds : e # Current => seen'[e] = seen[e] /\ (e \in unheard' <=> e \in unheard)
      BY <2>8, <3>1, NotifiedProperties DEF Notify
    <3>. QED  BY <2>8, <3>1, <3>2 DEF Notify
  <2>9. CASE UNCHANGED vars
    BY <2>9 DEF vars, Current
  <2>. QED
    BY <2>1, <2>2, <2>3, <2>4, <2>5, <2>6, <2>7, <2>8, <2>9 DEF Next, Central, Report
<1>. QED  BY <1>1, <1>2, TypeCorrect, PTL DEF Spec
=============================================================================
