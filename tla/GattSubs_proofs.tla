-------------------------- MODULE GattSubs_proofs --------------------------
(***************************************************************************)
(* Proofs about the pool of subscriptions, for every number of slots,      *)
(* callers and handles.                                                    *)
(***************************************************************************)
EXTENDS GattSubs, TLAPS

USE PoolAssumption

\* The first element of a set is an element of it.
LEMMA FirstOfProperties ==
  ASSUME NEW S, NEW s \in FirstOf(S)
  PROVE  s \in S
BY DEF FirstOf

\* A search returns a slot of the pool that is not in use.
LEMMA FreeSlotProperties ==
  ASSUME NEW used, NEW s \in FreeSlot(used)
  PROVE  s \in Slots /\ ~used[s]
BY FirstOfProperties DEF FreeSlot

\* Freeing slots leaves a table of flags, in which none of them is set and the
\* others are as before.
LEMMA FreeProperties ==
  ASSUME NEW used \in [Slots -> BOOLEAN], NEW S
  PROVE  /\ Free(used, S) \in [Slots -> BOOLEAN]
         /\ \A s \in Slots : Free(used, S)[s] <=> used[s] /\ s \notin S
<1>1. \A s \in Slots : used[s] \in BOOLEAN
  OBVIOUS
<1>2. \A s \in Slots : (used[s] /\ s \notin S) \in BOOLEAN
  OBVIOUS
<1>. QED  BY <1>1, <1>2, Zenon DEF Free

-----------------------------------------------------------------------------
(* Type correctness: no slot index leaves the pool.                          *)
THEOREM TypeCorrect == Spec => []TypeOK
<1>1. Init => TypeOK
  <2>1. (CHOOSE h \in Handles : TRUE) \in Handles
    BY Zenon
  <2>2. 1 \in Slots /\ 0 \in 0 .. MaxCalls /\ 0 \in 0 .. MaxLinks
    BY DEF Slots
  <2>. QED  BY <2>1, <2>2 DEF Init, TypeOK
<1>2. TypeOK /\ [Next]_vars => TypeOK'
  <2> SUFFICES ASSUME TypeOK, [Next]_vars
               PROVE  TypeOK'
    OBVIOUS
  <2>. USE DEF TypeOK
  <2>1. ASSUME NEW c \in Callers, NEW h \in Handles, Subscribe(c, h)
        PROVE  TypeOK'
    <3>1. PICK s \in FreeSlot(in_use) :
             /\ in_use' = [in_use EXCEPT ![s] = TRUE]
             /\ handle' = [handle EXCEPT ![s] = h]
             /\ owner' = [owner EXCEPT ![s] = calls + 1]
             /\ mine' = [mine EXCEPT ![c] = s]
             /\ raced' = (raced \/ AwaitsAnswer(s))
             /\ clobbered' = (clobbered \/ s \in listed)
      BY <2>1 DEF Subscribe
    <3>2. s \in Slots
      BY FreeSlotProperties
    <3>3. calls' \in 0 .. MaxCalls /\ calls + 1 \in 0 .. MaxCalls
      BY <2>1 DEF Subscribe
    <3>4. UNCHANGED stack /\ at' = [at EXCEPT ![c] = "request"]
      BY <2>1 DEF Subscribe
    <3>5. owner' \in [Slots -> 0 .. MaxCalls] /\ mine' \in [Callers -> Slots]
      BY <3>1, <3>2, <3>3
    <3>6. in_use' \in [Slots -> BOOLEAN] /\ handle' \in [Slots -> Handles]
      BY <3>1, <3>2
    <3>7. raced' \in BOOLEAN /\ clobbered' \in BOOLEAN
      BY <3>1, Zenon
    <3>. QED  BY <3>3, <3>4, <3>5, <3>6, <3>7 DEF stack
  <2>2. ASSUME NEW c \in Callers, NEW h \in Handles, Unsubscribe(c, h)
        PROVE  TypeOK'
    <3>1. PICK s \in FirstOf({t \in Slots : in_use[t] /\ handle[t] = h}) :
             /\ in_use' = Free(in_use, {s})
             /\ raced' = (raced \/ InRequest(s))
             /\ listed' \in {listed, listed \ {s}}
             /\ pending' \in {pending, pending \union {<<s, "off">>}}
      BY <2>2 DEF Unsubscribe
    <3>2. s \in Slots
      BY FirstOfProperties
    <3>3. in_use' \in [Slots -> BOOLEAN]
      BY <3>1, FreeProperties
    <3>4. raced' \in BOOLEAN
      BY <3>1, Zenon
    <3>5. listed' \subseteq Slots /\ pending' \subseteq Slots \X {"on", "off"}
      BY <3>1, <3>2
    <3>. QED  BY <2>2, <3>3, <3>4, <3>5 DEF Unsubscribe
  <2>3. ASSUME NEW c \in Callers, Request(c)
        PROVE  TypeOK'
    BY <2>3 DEF Request, pool
  <2>4. ASSUME NEW c \in Callers, Undo(c)
        PROVE  TypeOK'
    BY <2>4, FreeProperties DEF Undo, stack
  <2>5. CASE Connect
    BY <2>5 DEF Connect, pool
  <2>6. ASSUME NEW s \in Slots, NEW value \in {"on", "off"}, NEW accepted \in BOOLEAN,
               Answered(s, value, accepted)
        PROVE  TypeOK'
    <3>1. in_use' \in [Slots -> BOOLEAN]
      BY <2>6, FreeProperties DEF Answered, Terminated
    <3>. QED  BY <2>6, <3>1 DEF Answered
  <2>7. CASE LoseLink
    <3>1. in_use' \in [Slots -> BOOLEAN]
      BY <2>7, FreeProperties DEF LoseLink, Terminated
    <3>. QED  BY <2>7, <3>1 DEF LoseLink
  <2>8. CASE OnConnEvent
    <3>1. in_use' \in [Slots -> BOOLEAN]
      BY <2>8, FreeProperties DEF OnConnEvent
    <3>2. raced' \in BOOLEAN
      BY <2>8, Zenon DEF OnConnEvent
    <3>. QED  BY <2>8, <3>1, <3>2 DEF OnConnEvent
  <2>9. CASE UNCHANGED vars
    BY <2>9 DEF vars, pool, stack
  <2>. QED  BY <2>1, <2>2, <2>3, <2>4, <2>5, <2>6, <2>7, <2>8, <2>9 DEF Next
<1>. QED  BY <1>1, <1>2, PTL DEF Spec

-----------------------------------------------------------------------------
(* No slot leaks.  A slot in use has somebody who will free it: the stack,   *)
(* while the link lasts; on_conn_event, which the lost link brings; or the   *)
(* call whose request is still to be made or undone.                         *)

SomebodyFrees ==
  \A s \in Slots : in_use[s] => link \/ bt = "lost" \/ InRequest(s)

\* A refused request, a lost link and an event that is handled all free what
\* they leave without a keeper: NoSlotLeaked holds in every reachable state.
THEOREM NoSlotLeakedHolds == Spec => []NoSlotLeaked
<1>1. Init => SomebodyFrees
  BY DEF Init, SomebodyFrees
<1>2. TypeOK /\ SomebodyFrees /\ [Next]_vars => SomebodyFrees'
  <2> SUFFICES ASSUME TypeOK, SomebodyFrees, [Next]_vars, NEW s \in Slots, in_use'[s]
               PROVE  link' \/ bt' = "lost" \/ InRequest(s)'
    BY DEF SomebodyFrees
  <2>. USE DEF TypeOK, SomebodyFrees, InRequest
  <2>1. ASSUME NEW c \in Callers, NEW h \in Handles, Subscribe(c, h)
        PROVE  link' \/ bt' = "lost" \/ InRequest(s)'
    <3>1. PICK taken \in FreeSlot(in_use) :
             /\ in_use' = [in_use EXCEPT ![taken] = TRUE]
             /\ mine' = [mine EXCEPT ![c] = taken]
      BY <2>1 DEF Subscribe
    <3>2. link' = link /\ bt' = bt /\ at[c] = "idle" /\ at' = [at EXCEPT ![c] = "request"]
      BY <2>1 DEF Subscribe, stack
    <3>3. CASE s = taken
      <4>1. at'[c] # "idle" /\ mine'[c] = s
        BY <3>1, <3>2, <3>3
      <4>. QED  BY <4>1
    <3>4. CASE s # taken
      <4>1. in_use[s]
        BY <3>1, <3>4
      <4>2. ASSUME NEW d \in Callers, at[d] # "idle", mine[d] = s
            PROVE  at'[d] # "idle" /\ mine'[d] = s
        BY <3>1, <3>2, <4>2
      <4>. QED  BY <3>2, <4>1, <4>2
    <3>. QED  BY <3>3, <3>4
  <2>2. ASSUME NEW c \in Callers, NEW h \in Handles, Unsubscribe(c, h)
        PROVE  link' \/ bt' = "lost" \/ InRequest(s)'
    <3>1. PICK S : in_use' = Free(in_use, S)
      BY <2>2 DEF Unsubscribe
    <3>. QED  BY <2>2, <3>1, FreeProperties DEF Unsubscribe
  <2>3. ASSUME NEW c \in Callers, Request(c)
        PROVE  link' \/ bt' = "lost" \/ InRequest(s)'
    <3>1. in_use' = in_use /\ link' = link /\ bt' = bt /\ mine' = mine
      BY <2>3 DEF Request, pool
    <3>2. link \/ \A d \in Callers : at[d] # "idle" => at'[d] # "idle"
      BY <2>3 DEF Request
    <3>. QED  BY <3>1, <3>2
  <2>4. ASSUME NEW c \in Callers, Undo(c)
        PROVE  link' \/ bt' = "lost" \/ InRequest(s)'
    <3>1. in_use[s] /\ s # mine[c]
      BY <2>4, FreeProperties DEF Undo
    <3>2. link' = link /\ bt' = bt /\ mine' = mine /\ at' = [at EXCEPT ![c] = "idle"]
      BY <2>4 DEF Undo, stack
    <3>. QED  BY <3>1, <3>2
  <2>5. CASE Connect
    BY <2>5 DEF Connect
  <2>6. ASSUME NEW t \in Slots, NEW value \in {"on", "off"}, NEW accepted \in BOOLEAN,
               Answered(t, value, accepted)
        PROVE  link' \/ bt' = "lost" \/ InRequest(s)'
    <3>1. in_use[s]
      BY <2>6, FreeProperties DEF Answered, Terminated
    <3>. QED  BY <2>6, <3>1 DEF Answered
  <2>7. CASE LoseLink
    BY <2>7 DEF LoseLink
  <2>8. CASE OnConnEvent
    BY <2>8, FreeProperties DEF OnConnEvent
  <2>9. CASE UNCHANGED vars
    BY <2>9 DEF vars, pool, stack
  <2>. QED  BY <2>1, <2>2, <2>3, <2>4, <2>5, <2>6, <2>7, <2>8, <2>9 DEF Next
<1>3. SomebodyFrees => NoSlotLeaked
  BY DEF SomebodyFrees, NoSlotLeaked, InRequest
<1>. QED  BY TypeCorrect, <1>1, <1>2, <1>3, PTL DEF Spec

-----------------------------------------------------------------------------
(* The slots the stack has in its list.                                      *)

\* Without a link the stack holds nothing; on_conn_event runs after its loss.
LinkBookkeeping ==
  /\ ~link => listed = {} /\ pending = {}
  /\ bt = "lost" => ~link

\* A call in progress has a taken slot that the stack does not know.
Taken(c) ==
  at[c] # "idle" => in_use[mine[c]] /\ mine[c] \notin listed /\ ~AwaitsAnswer(mine[c])

\* ... and that no other call in progress has.
Separate ==
  \A c, d \in Callers : at[c] # "idle" /\ at[d] # "idle" /\ mine[c] = mine[d] => c = d

\* A slot whose unsubscription is in flight is not in the stack's list.
Dropped == \A s \in Slots : <<s, "off">> \in pending => s \notin listed

Kept == \A s \in listed : in_use[s] /\ owner[s] = given[s]

\* The inductive invariant: ListedSlotsKept needs that a call's slot is its own
\* until the stack has it, and out of the stack's hands once it is free.
Bookkeeping ==
  /\ LinkBookkeeping
  /\ ~raced => (\A c \in Callers : Taken(c)) /\ Separate /\ Dropped /\ Kept

LEMMA LinkStep == TypeOK /\ LinkBookkeeping /\ [Next]_vars => LinkBookkeeping'
<1> SUFFICES ASSUME TypeOK, LinkBookkeeping, [Next]_vars
             PROVE  LinkBookkeeping'
  OBVIOUS
<1>. USE DEF TypeOK, LinkBookkeeping
<1>1. ASSUME NEW c \in Callers, NEW h \in Handles, Subscribe(c, h) \/ Unsubscribe(c, h)
      PROVE  LinkBookkeeping'
  <2>1. bt' = bt /\ link' = link
    BY <1>1 DEF Subscribe, Unsubscribe, stack
  <2>2. UNCHANGED <<listed, pending>> \/ link
    BY <1>1 DEF Subscribe, Unsubscribe, stack
  <2>. QED  BY <2>1, <2>2
<1>2. ASSUME NEW c \in Callers, Request(c) \/ Undo(c)
      PROVE  LinkBookkeeping'
  BY <1>2 DEF Request, Undo, stack
<1>3. CASE Connect
  BY <1>3 DEF Connect
<1>4. ASSUME NEW s \in Slots, NEW value \in {"on", "off"}, NEW accepted \in BOOLEAN,
             Answered(s, value, accepted)
      PROVE  LinkBookkeeping'
  BY <1>4 DEF Answered
<1>5. CASE LoseLink \/ OnConnEvent
  BY <1>5 DEF LoseLink, OnConnEvent
<1>6. CASE UNCHANGED vars
  BY <1>6 DEF vars, stack
<1>. QED  BY <1>1, <1>2, <1>3, <1>4, <1>5, <1>6 DEF Next

\* A slot on the stack's list keeps its call, for every number of slots, of
\* threads and of links: ListedSlotsKept holds in every reachable state.
THEOREM ListedSlotsKeptHolds == Spec => []ListedSlotsKept
<1>1. Init => Bookkeeping
  BY DEF Init, Bookkeeping, LinkBookkeeping, Taken, Separate, Dropped, Kept
<1>2. TypeOK /\ Bookkeeping /\ [Next]_vars => Bookkeeping'
  <2> SUFFICES ASSUME TypeOK, Bookkeeping, [Next]_vars, ~raced'
               PROVE  (\A c \in Callers : Taken(c)') /\ Separate' /\ Dropped' /\ Kept'
    BY LinkStep DEF Bookkeeping
  <2>. DEFINE Goal == (\A c \in Callers : Taken(c)') /\ Separate' /\ Dropped' /\ Kept'
  <2>0. ~raced
    BY DEF Next, vars, Subscribe, Unsubscribe, Request, Undo, Connect, Answered, LoseLink,
           OnConnEvent
  <2>a. (\A c \in Callers : Taken(c)) /\ Separate /\ Dropped /\ Kept /\ LinkBookkeeping
    BY <2>0 DEF Bookkeeping
  <2>. USE DEF TypeOK
  <2>1. ASSUME NEW c \in Callers, NEW h \in Handles, Subscribe(c, h)
        PROVE  Goal
    <3>1. PICK s \in FreeSlot(in_use) :
             /\ in_use' = [in_use EXCEPT ![s] = TRUE]
             /\ owner' = [owner EXCEPT ![s] = calls + 1]
             /\ mine' = [mine EXCEPT ![c] = s]
             /\ raced' = (raced \/ AwaitsAnswer(s))
      BY <2>1 DEF Subscribe
    <3>2. s \in Slots /\ ~in_use[s]
      BY FreeSlotProperties
    <3>3. ~AwaitsAnswer(s)
      BY <3>1
    <3>4. s \notin listed
      BY <2>a, <3>2 DEF Kept
    <3>5. /\ at[c] = "idle"
          /\ at' = [at EXCEPT ![c] = "request"]
          /\ UNCHANGED <<listed, given, pending>>
      BY <2>1 DEF Subscribe, stack
    <3>6. \A d \in Callers : at[d] # "idle" => mine[d] # s
      BY <2>a, <3>2 DEF Taken
    <3>7. ASSUME NEW d \in Callers
          PROVE  Taken(d)'
      <4>1. CASE d = c
        BY <3>1, <3>2, <3>3, <3>4, <3>5, <4>1 DEF Taken, AwaitsAnswer
      <4>2. CASE d # c
        BY <2>a, <3>1, <3>2, <3>5, <4>2 DEF Taken, AwaitsAnswer
      <4>. QED  BY <4>1, <4>2
    <3>8. Separate'
      BY <2>a, <3>1, <3>5, <3>6 DEF Separate
    <3>9. Dropped' /\ Kept'
      BY <2>a, <3>1, <3>2, <3>4, <3>5 DEF Dropped, Kept
    <3>. QED  BY <3>7, <3>8, <3>9
  <2>2. ASSUME NEW c \in Callers, NEW h \in Handles, Unsubscribe(c, h)
        PROVE  Goal
    <3>1. PICK s \in FirstOf({t \in Slots : in_use[t] /\ handle[t] = h}) :
             /\ in_use' = Free(in_use, {s})
             /\ raced' = (raced \/ InRequest(s))
             /\ \/ /\ listed' = listed \ {s}
                   /\ pending' \in {pending, pending \union {<<s, "off">>}}
                \/ /\ ~link \/ s \notin listed
                   /\ UNCHANGED <<listed, pending>>
      BY <2>2 DEF Unsubscribe
    <3>2. s \in Slots
      BY FirstOfProperties
    <3>3. \A d \in Callers : at[d] # "idle" => mine[d] # s
      BY <3>1 DEF InRequest
    <3>4. s \notin listed' /\ listed' \subseteq listed
      BY <2>a, <3>1 DEF LinkBookkeeping
    <3>5. \A t \in Slots : t # s => in_use'[t] = in_use[t]
      BY <3>1, FreeProperties
    <3>6. \A p \in pending' : p \in pending \/ p = <<s, "off">>
      BY <3>1
    <3>7. UNCHANGED <<owner, at, mine, given>>
      BY <2>2 DEF Unsubscribe
    <3>8. \A d \in Callers : Taken(d)'
      BY <2>a, <3>3, <3>4, <3>5, <3>6, <3>7 DEF Taken, AwaitsAnswer
    <3>9. Separate' /\ Dropped' /\ Kept'
      BY <2>a, <3>4, <3>5, <3>6, <3>7 DEF Separate, Dropped, Kept
    <3>. QED  BY <3>8, <3>9
  <2>3. ASSUME NEW c \in Callers, Request(c)
        PROVE  Goal
    <3>1. at[c] = "request" /\ UNCHANGED <<in_use, owner, mine>>
      BY <2>3 DEF Request, pool
    <3>2. mine[c] \in Slots /\ in_use[mine[c]] /\ mine[c] \notin listed /\ ~AwaitsAnswer(mine[c])
      BY <2>a, <3>1 DEF Taken
    <3>3. CASE /\ listed' = listed \union {mine[c]}
               /\ given' = [given EXCEPT ![mine[c]] = owner[mine[c]]]
               /\ pending' = pending \union {<<mine[c], "on">>}
               /\ at' = [at EXCEPT ![c] = "idle"]
      <4>1. \A d \in Callers : Taken(d)'
        BY <2>a, <3>1, <3>3 DEF Taken, Separate, AwaitsAnswer
      <4>2. Separate'
        BY <2>a, <3>1, <3>3 DEF Separate
      <4>3. Dropped'
        BY <2>a, <3>2, <3>3 DEF Dropped, AwaitsAnswer
      <4>4. Kept'
        BY <2>a, <3>1, <3>2, <3>3 DEF Kept
      <4>. QED  BY <4>1, <4>2, <4>3, <4>4
    <3>4. CASE /\ at' = [at EXCEPT ![c] = "undo"]
               /\ UNCHANGED <<listed, given, pending>>
      <4>1. \A d \in Callers : at'[d] # "idle" => at[d] # "idle"
        BY <3>1, <3>4
      <4>. QED  BY <2>a, <3>1, <3>4, <4>1 DEF Taken, Separate, Dropped, Kept, AwaitsAnswer
    <3>. QED  BY <2>3, <3>3, <3>4 DEF Request
  <2>4. ASSUME NEW c \in Callers, Undo(c)
        PROVE  Goal
    <3>1. /\ at[c] = "undo"
          /\ at' = [at EXCEPT ![c] = "idle"]
          /\ UNCHANGED <<owner, mine, listed, given, pending>>
      BY <2>4 DEF Undo, stack
    <3>2. \A t \in Slots : t # mine[c] => in_use'[t] = in_use[t]
      BY <2>4, FreeProperties DEF Undo
    <3>3. \A d \in Callers : at'[d] # "idle" => at[d] # "idle" /\ mine[d] # mine[c]
      BY <2>a, <3>1 DEF Separate
    <3>4. mine[c] \notin listed
      BY <2>a, <3>1 DEF Taken
    <3>5. \A d \in Callers : Taken(d)'
      BY <2>a, <3>1, <3>2, <3>3 DEF Taken, AwaitsAnswer
    <3>6. Separate' /\ Dropped' /\ Kept'
      BY <2>a, <3>1, <3>2, <3>3, <3>4 DEF Separate, Dropped, Kept
    <3>. QED  BY <3>5, <3>6
  <2>5. CASE Connect
    BY <2>5, <2>a DEF Connect, pool, Taken, Separate, Dropped, Kept, AwaitsAnswer
  <2>6. ASSUME NEW s \in Slots, NEW value \in {"on", "off"}, NEW accepted \in BOOLEAN,
               Answered(s, value, accepted)
        PROVE  Goal
    <3>1. /\ <<s, value>> \in pending /\ pending' \subseteq pending
          /\ listed' \subseteq listed
          /\ UNCHANGED <<owner, at, mine, given>>
      BY <2>6 DEF Answered
    <3>2. \A t \in Slots : t # s => in_use'[t] = in_use[t]
      BY <2>6, FreeProperties DEF Answered, Terminated
    <3>3. in_use' = in_use \/ s \notin listed'
      BY <2>6, <2>a DEF Answered, Dropped
    <3>4. \A d \in Callers : at[d] # "idle" => mine[d] # s
      BY <2>a, <3>1 DEF Taken, AwaitsAnswer
    <3>5. \A d \in Callers : Taken(d)'
      BY <2>a, <3>1, <3>2, <3>4 DEF Taken, AwaitsAnswer
    <3>6. Separate' /\ Dropped' /\ Kept'
      BY <2>a, <3>1, <3>2, <3>3 DEF Separate, Dropped, Kept
    <3>. QED  BY <3>5, <3>6
  <2>7. CASE LoseLink
    <3>1. listed' = {} /\ pending' = {} /\ UNCHANGED <<at, mine>>
      BY <2>7 DEF LoseLink
    <3>2. \A s \in Slots : s \notin listed /\ ~AwaitsAnswer(s) => in_use'[s] = in_use[s]
      BY <2>7, FreeProperties DEF LoseLink, Terminated, AwaitsAnswer
    <3>3. \A d \in Callers : Taken(d)'
      BY <2>a, <3>1, <3>2 DEF Taken, AwaitsAnswer
    <3>. QED  BY <2>a, <3>1, <3>3 DEF Separate, Dropped, Kept
  <2>8. CASE OnConnEvent
    <3>1. listed' = {} /\ pending' = {} /\ UNCHANGED <<at, mine>>
      BY <2>8, <2>a DEF OnConnEvent, LinkBookkeeping
    <3>2. \A d \in Callers : at[d] = "idle"
      BY <2>8 DEF OnConnEvent, InRequest
    <3>. QED  BY <3>1, <3>2 DEF Taken, Separate, Dropped, Kept
  <2>9. CASE UNCHANGED vars
    BY <2>9, <2>a DEF vars, pool, stack, Taken, Separate, Dropped, Kept, AwaitsAnswer
  <2>. QED  BY <2>1, <2>2, <2>3, <2>4, <2>5, <2>6, <2>7, <2>8, <2>9 DEF Next
<1>3. Bookkeeping => ListedSlotsKept
  BY DEF Bookkeeping, Kept, ListedSlotsKept
<1>. QED  BY TypeCorrect, <1>1, <1>2, <1>3, PTL DEF Spec
=============================================================================
