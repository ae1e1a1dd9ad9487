------------------------------ MODULE GattSubs ------------------------------
(***************************************************************************)
(* The pool of subscriptions of the GATT client (package_ble_gatt_client): *)
(* application threads subscribe and unsubscribe, the Bluetooth RX thread  *)
(* runs on_notify and on_conn_event.                                       *)
(*                                                                         *)
(* What a caller does under sub_mutex is one step: the other users of the  *)
(* pool wait for the mutex, but for on_notify, whose one assignment may as *)
(* well come before or after.  The stack is external: it keeps a list of   *)
(* the params it was given, answers the write of a CCC later, and calls    *)
(* on_notify with NULL data for params it drops.                           *)
(***************************************************************************)
EXTENDS Naturals

CONSTANTS
  Callers,   (* application threads                                         *)
  Handles,   (* values of value_handle                                      *)
  MaxSlots,  (* CONFIG_PACKAGE_BLE_GATT_CLIENT_MAX_SUBSCRIPTIONS            *)
  MaxCalls,  (* bound: successful searches for a slot in a behaviour        *)
  MaxLinks   (* bound: links in a behaviour                                 *)

ASSUME PoolAssumption == /\ MaxSlots \in Nat \ {0} /\ MaxCalls \in Nat /\ MaxLinks \in Nat
                         /\ Handles # {}

Slots == 1 .. MaxSlots

VARIABLES
  in_use,    \* per slot
  handle,    \* per slot: params.value_handle
  owner,     \* per slot: the call whose user_cb and user_data it holds
  at,        \* per caller: "idle", "request" or "undo"
  mine,      \* per caller: its local slot
  calls,     \* number of the last call
  link,      \* the link is up
  links,
  bt,        \* the Bluetooth RX thread: "idle", or "lost" before on_conn_event
  listed,    \* slots whose params are in the stack's list
  given,     \* per slot: the call that gave these params to the stack
  pending,   \* CCC writes in flight: <<slot, value written>>
  raced,     \* history: a slot changed hands while somebody still used it
  clobbered  \* history: params were overwritten while in the stack's list

pool  == <<in_use, handle, owner>>
stack == <<link, links, bt, listed, given, pending>>
vars  == <<pool, at, mine, calls, stack, raced, clobbered>>

Init ==
  /\ in_use = [s \in Slots |-> FALSE]
  /\ handle = [s \in Slots |-> CHOOSE h \in Handles : TRUE]
  /\ owner = [s \in Slots |-> 0]
  /\ at = [c \in Callers |-> "idle"]
  /\ mine = [c \in Callers |-> 1]
  /\ calls = 0
  /\ link = FALSE
  /\ links = 0
  /\ bt = "idle"
  /\ listed = {}
  /\ given = [s \in Slots |-> 0]
  /\ pending = {}
  /\ raced = FALSE
  /\ clobbered = FALSE

Free(used, S)  == [s \in Slots |-> used[s] /\ s \notin S]
InRequest(s)   == \E c \in Callers : at[c] # "idle" /\ mine[c] = s
AwaitsAnswer(s) == \E p \in pending : p[1] = s

-----------------------------------------------------------------------------
(* The application                                                           *)

\* The first element of a set of slots, if there is one.
FirstOf(S) == {s \in S : \A t \in S : s <= t}

\* Seeded mistakes: the search ignores in_use, or runs one slot too far.
AnySlot(used)      == FirstOf(Slots)
FreeSlotPast(used) == FirstOf({s \in 1 .. MaxSlots + 1 : s > MaxSlots \/ ~used[s]})

\* The first slot that is not in use.
FreeSlot(used) == FirstOf({s \in Slots : ~used[s]})

\* ble_gatt_client_subscribe, under the mutex: take a slot and fill it.
Subscribe(c, h) ==
  /\ at[c] = "idle"
  /\ calls < MaxCalls
  /\ \E s \in FreeSlot(in_use) :
       /\ in_use' = [in_use EXCEPT ![s] = TRUE]
       /\ handle' = [handle EXCEPT ![s] = h]
       /\ owner' = [owner EXCEPT ![s] = calls + 1]
       /\ mine' = [mine EXCEPT ![c] = s]
       /\ raced' = (raced \/ AwaitsAnswer(s))
       /\ clobbered' = (clobbered \/ s \in listed)
  /\ calls' = calls + 1
  /\ at' = [at EXCEPT ![c] = "request"]
  /\ UNCHANGED stack

\* ... and after it: bt_gatt_subscribe, which fails without a link, for params
\* it already has, or for want of memory.
Request(c) ==
  /\ at[c] = "request"
  /\ \/ /\ link
        /\ mine[c] \notin listed
        /\ listed' = listed \union {mine[c]}
        /\ given' = [given EXCEPT ![mine[c]] = owner[mine[c]]]
        /\ pending' = pending \union {<<mine[c], "on">>}
        /\ at' = [at EXCEPT ![c] = "idle"]
     \/ /\ at' = [at EXCEPT ![c] = "undo"]
        /\ UNCHANGED <<listed, given, pending>>
  /\ UNCHANGED <<pool, mine, calls, link, links, bt, raced, clobbered>>

\* Seeded mistake: a refused request keeps its slot.
UndoKeepsSlot(c) ==
  /\ at[c] = "undo"
  /\ at' = [at EXCEPT ![c] = "idle"]
  /\ UNCHANGED <<pool, mine, calls, stack, raced, clobbered>>

\* The error path of ble_gatt_client_subscribe.
Undo(c) ==
  /\ at[c] = "undo"
  /\ in_use' = Free(in_use, {mine[c]})
  /\ at' = [at EXCEPT ![c] = "idle"]
  /\ UNCHANGED <<handle, owner, mine, calls, stack, raced, clobbered>>

\* ble_gatt_client_unsubscribe: the first slot for the handle; the stack drops
\* the params and writes the CCC, unless another subscription needs it.
Unsubscribe(c, h) ==
  /\ at[c] = "idle"
  /\ \E s \in FirstOf({t \in Slots : in_use[t] /\ handle[t] = h}) :
       LET shared == \E t \in listed \ {s} : handle[t] = h IN
       /\ in_use' = Free(in_use, {s})
       /\ raced' = (raced \/ InRequest(s))
       /\ IF link /\ s \in listed
          THEN /\ listed' = listed \ {s}
               /\ pending' = IF shared THEN pending ELSE pending \union {<<s, "off">>}
          ELSE UNCHANGED <<listed, pending>>
  /\ UNCHANGED <<handle, owner, at, mine, calls, link, links, bt, given, clobbered>>

-----------------------------------------------------------------------------
(* The stack and the Bluetooth RX thread                                     *)

Connect ==
  /\ ~link
  /\ bt = "idle"
  /\ links < MaxLinks
  /\ link' = TRUE
  /\ links' = links + 1
  /\ UNCHANGED <<pool, at, mine, calls, bt, listed, given, pending, raced, clobbered>>

\* on_notify with NULL data frees the slot, without the mutex.
Terminated(S) == in_use' = Free(in_use, S)

\* A CCC write is answered.  A refused subscription is dropped; it and a
\* finished unsubscription are reported with NULL data.
Answered(s, value, accepted) ==
  /\ bt = "idle"
  /\ <<s, value>> \in pending
  /\ pending' = pending \ {<<s, value>>}
  /\ IF value = "on" /\ accepted
     THEN UNCHANGED <<listed, in_use>>
     ELSE /\ listed' = IF accepted THEN listed ELSE listed \ {s}
          /\ Terminated({s})
  /\ UNCHANGED <<handle, owner, at, mine, calls, link, links, bt, given, raced, clobbered>>

\* The link goes down: every subscription and every write in flight ends.
LoseLink ==
  /\ link
  /\ bt = "idle"
  /\ link' = FALSE
  /\ Terminated(listed \union {p[1] : p \in pending})
  /\ listed' = {}
  /\ pending' = {}
  /\ bt' = "lost"
  /\ UNCHANGED <<handle, owner, at, mine, calls, links, given, raced, clobbered>>

OnConnEvent ==
  /\ bt = "lost"
  /\ in_use' = Free(in_use, Slots)
  /\ raced' = (raced \/ \E s \in Slots : InRequest(s))
  /\ bt' = "idle"
  /\ UNCHANGED <<handle, owner, at, mine, calls, link, links, listed, given, pending, clobbered>>

Next ==
  \/ \E c \in Callers :
       \/ \E h \in Handles : Subscribe(c, h) \/ Unsubscribe(c, h)
       \/ Request(c)
       \/ Undo(c)
  \/ Connect
  \/ \E s \in Slots, value \in {"on", "off"}, accepted \in BOOLEAN : Answered(s, value, accepted)
  \/ LoseLink
  \/ OnConnEvent

Spec == Init /\ [][Next]_vars

-----------------------------------------------------------------------------
\* Every variable keeps its range; in particular no slot index leaves the pool.
TypeOK ==
  /\ in_use \in [Slots -> BOOLEAN]
  /\ handle \in [Slots -> Handles]
  /\ owner \in [Slots -> 0 .. MaxCalls]
  /\ at \in [Callers -> {"idle", "request", "undo"}]
  /\ mine \in [Callers -> Slots]
  /\ calls \in 0 .. MaxCalls
  /\ link \in BOOLEAN
  /\ links \in 0 .. MaxLinks
  /\ bt \in {"idle", "lost"}
  /\ listed \subseteq Slots
  /\ given \in [Slots -> 0 .. MaxCalls]
  /\ pending \subseteq Slots \X {"on", "off"}
  /\ raced \in BOOLEAN
  /\ clobbered \in BOOLEAN

\* A slot the stack has in its list stays taken by the call that gave it, so
\* on_notify calls that call's user_cb with its user_data -- unless a slot was
\* freed under a request in progress, or taken again before the stack had
\* answered the write that ended its last use.
ListedSlotsKept ==
  ~raced => \A s \in listed : in_use[s] /\ owner[s] = given[s]

\* Once a lost link is handled and the calls in progress have ended, the whole
\* pool is free: no error path and no order of events leaks a slot.
NoSlotLeaked ==
  ~link /\ bt = "idle" /\ (\A c \in Callers : at[c] = "idle") => \A s \in Slots : ~in_use[s]

\* The head of the source file (lines 43-45): params must not be overwritten
\* until the stack is done with them; the pool is there for that.
ParamsUntouched == ~clobbered
=============================================================================
