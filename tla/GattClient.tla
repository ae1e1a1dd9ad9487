----------------------------- MODULE GattClient -----------------------------
(***************************************************************************)
(* The serialisation of discovery, read and write in package_ble_gatt_     *)
(* client.  Each of the three has one busy flag, one static params struct  *)
(* for the stack and one static context with the user's callback; the      *)
(* calls that filled them are numbered, and slot[f] is the call whose data *)
(* flag f's params and context hold.                                       *)
(*                                                                         *)
(* Callers are threads of the application.  on_discover, on_read, on_write *)
(* and the connection event run on the Bluetooth RX thread, which the      *)
(* application cannot preempt: each is one step.  (A follow-up call made   *)
(* from a user callback is a call that is not interrupted.)                *)
(*                                                                         *)
(* The stack is external: it refuses requests without a link, answers or   *)
(* fails every request it accepted, and fails those of a lost link before  *)
(* it reports the disconnection.  One link at a time, so a conn pointer    *)
(* kept across a reconnection names the new link.                          *)
(***************************************************************************)
EXTENDS Naturals, FiniteSets

CONSTANTS
  Callers,    (* threads that use the client                                *)
  Kinds,      (* the operations they call                                   *)
  MaxCalls,   (* bound: calls that pass the busy check in a behaviour       *)
  MaxLosses   (* bound: links lost in a behaviour                           *)

ASSUME KindsAssumption == Kinds \subseteq {"service", "char", "desc", "read", "write"}
ASSUME BoundAssumption == MaxCalls \in Nat /\ MaxLosses \in Nat

\* disc_busy, read_busy, write_busy
Flag(k) == IF k \in {"service", "char", "desc"} THEN "disc" ELSE k
Flags   == {Flag(k) : k \in Kinds}

VARIABLES
  busy,      \* per flag
  slot,      \* per flag: the call its params and context hold, 0 for none
  requests,  \* per flag: the calls whose request the stack has accepted
  calls,     \* number of the last call
  kind,      \* per call: its operation
  pc,        \* per caller
  call,      \* per caller: the call it is making
  link,      \* the stack has a link
  losses,    \* links lost so far
  event,     \* a disconnection is being reported
  cut        \* history: a disconnection was reported during a call

callVars == <<calls, kind, pc, call>>
linkVars == <<link, losses, event>>
vars     == <<busy, slot, requests, callVars, linkVars, cut>>

Init ==
  /\ busy = [f \in Flags |-> FALSE]
  /\ slot = [f \in Flags |-> 0]
  /\ requests = [f \in Flags |-> {}]
  /\ calls = 0
  /\ kind = [i \in 1 .. MaxCalls |-> "none"]
  /\ pc = [c \in Callers |-> "idle"]
  /\ call = [c \in Callers |-> 0]
  /\ link = FALSE
  /\ losses = 0
  /\ event = FALSE
  /\ cut = FALSE

FlagOf(c) == Flag(kind[call[c]])
Goto(c, label) == pc' = [pc EXCEPT ![c] = label]

-----------------------------------------------------------------------------
(* A call: ble_gatt_client_discover_*, _read and _write.                     *)

\* Seeded mistake: the result of atomic_test_and_set is not looked at.
BeginUnchecked(c, k) ==
  /\ pc[c] = "idle"
  /\ calls < MaxCalls
  /\ busy' = [busy EXCEPT ![Flag(k)] = TRUE]
  /\ calls' = calls + 1
  /\ kind' = [kind EXCEPT ![calls + 1] = k]
  /\ call' = [call EXCEPT ![c] = calls + 1]
  /\ Goto(c, "fill")
  /\ UNCHANGED <<slot, requests, linkVars, cut>>

\* atomic_test_and_set.  A caller that finds the flag set gets -EBUSY and
\* changes nothing.
Begin(c, k) ==
  /\ pc[c] = "idle"
  /\ calls < MaxCalls
  /\ ~busy[Flag(k)]
  /\ busy' = [busy EXCEPT ![Flag(k)] = TRUE]
  /\ calls' = calls + 1
  /\ kind' = [kind EXCEPT ![calls + 1] = k]
  /\ call' = [call EXCEPT ![c] = calls + 1]
  /\ Goto(c, "fill")
  /\ UNCHANGED <<slot, requests, linkVars, cut>>

\* Fill in the context, the params and, for a write, the staging buffer.
Fill(c) ==
  /\ pc[c] = "fill"
  /\ slot' = [slot EXCEPT ![FlagOf(c)] = call[c]]
  /\ Goto(c, "request")
  /\ UNCHANGED <<busy, requests, calls, kind, call, linkVars, cut>>

\* Seeded mistake: the request is made with another operation's params.
AcceptedWrongParams(c) ==
  /\ pc[c] = "request"
  /\ link
  /\ \E f \in Flags :
       f # FlagOf(c) /\ requests' = [requests EXCEPT ![f] = @ \union {call[c]}]
  /\ Goto(c, "idle")
  /\ UNCHANGED <<busy, slot, calls, kind, call, linkVars, cut>>

\* bt_gatt_discover, bt_gatt_read, bt_gatt_write: accepted, and the call
\* returns 0 ...
Accepted(c) ==
  /\ pc[c] = "request"
  /\ link
  /\ requests' = [requests EXCEPT ![FlagOf(c)] = @ \union {call[c]}]
  /\ Goto(c, "idle")
  /\ UNCHANGED <<busy, slot, calls, kind, call, linkVars, cut>>

\* ... or refused: no link, or no buffer for the request.
Refused(c) ==
  /\ pc[c] = "request"
  /\ Goto(c, "failed")
  /\ UNCHANGED <<busy, slot, requests, calls, kind, call, linkVars, cut>>

GiveUp(c) ==
  /\ pc[c] = "failed"
  /\ busy' = [busy EXCEPT ![FlagOf(c)] = FALSE]
  /\ Goto(c, "idle")
  /\ UNCHANGED <<slot, requests, calls, kind, call, linkVars, cut>>

-----------------------------------------------------------------------------
(* The Bluetooth RX thread                                                   *)

\* Seeded mistakes: a completion leaves the flag set; a found descriptor
\* already clears it, the scan going on.
DoneKeepsFlag(f, i) ==
  /\ i \in requests[f]
  /\ requests' = [requests EXCEPT ![f] = @ \ {i}]
  /\ UNCHANGED <<busy, slot, callVars, linkVars, cut>>

FoundClearsEarly(f, i) ==
  /\ link
  /\ f = "disc"
  /\ i \in requests[f]
  /\ busy' = [busy EXCEPT ![f] = FALSE]
  /\ requests' = [requests EXCEPT ![f] = IF kind[slot[f]] = "desc" THEN @ ELSE @ \ {i}]
  /\ UNCHANGED <<slot, callVars, linkVars, cut>>

\* on_discover with an attribute.  The context says what was asked for: a
\* service or a characteristic ends the operation (a descriptor does not, and
\* changes nothing).
Found(f, i) ==
  /\ link
  /\ f = "disc"
  /\ i \in requests[f]
  /\ kind[slot[f]] # "desc"
  /\ busy' = [busy EXCEPT ![f] = FALSE]
  /\ requests' = [requests EXCEPT ![f] = @ \ {i}]
  /\ UNCHANGED <<slot, callVars, linkVars, cut>>

\* on_discover without an attribute (nothing more to find, or an error),
\* on_read and on_write.
Done(f, i) ==
  /\ i \in requests[f]
  /\ busy' = [busy EXCEPT ![f] = FALSE]
  /\ requests' = [requests EXCEPT ![f] = @ \ {i}]
  /\ UNCHANGED <<slot, callVars, linkVars, cut>>

Connect ==
  /\ ~link
  /\ ~event
  /\ link' = TRUE
  /\ UNCHANGED <<busy, slot, requests, callVars, losses, event, cut>>

LoseLink ==
  /\ link
  /\ losses < MaxLosses
  /\ losses' = losses + 1
  /\ link' = FALSE
  /\ event' = TRUE
  /\ UNCHANGED <<busy, slot, requests, callVars, cut>>

\* on_conn_event(DISCONNECTED): clear the flags.
OnConnEvent ==
  /\ event
  /\ \A f \in Flags : requests[f] = {}
  /\ busy' = [f \in Flags |-> FALSE]
  /\ event' = FALSE
  /\ cut' = (cut \/ \E c \in Callers : pc[c] # "idle")
  /\ UNCHANGED <<slot, requests, callVars, link, losses>>

-----------------------------------------------------------------------------
InCall(c) == Fill(c) \/ Accepted(c) \/ Refused(c) \/ GiveUp(c)
Answer    == \E f \in Flags : \E i \in requests[f] : Found(f, i) \/ Done(f, i)

Next ==
  \/ \E c \in Callers, k \in Kinds : Begin(c, k)
  \/ \E c \in Callers : InCall(c)
  \/ Answer
  \/ Connect \/ LoseLink \/ OnConnEvent

(***************************************************************************)
(* A call has no wait in it, the stack answers or times out every request, *)
(* and reports every disconnection.                                        *)
(***************************************************************************)
Fairness ==
  /\ \A c \in Callers : WF_vars(InCall(c))
  /\ \A f \in Flags : WF_vars(\E i \in requests[f] : Done(f, i))
  /\ WF_vars(OnConnEvent)

Spec     == Init /\ [][Next]_vars
FairSpec == Spec /\ Fairness

-----------------------------------------------------------------------------
\* The calls that hold flag f: those that passed the check and were not
\* answered.
Making(f)  == {call[c] : c \in {d \in Callers : pc[d] # "idle" /\ FlagOf(d) = f}}
Holders(f) == Making(f) \union requests[f]

\* Every variable keeps its range; a request is in the list of its flag.
TypeOK ==
  /\ busy \in [Flags -> BOOLEAN]
  /\ slot \in [Flags -> 0 .. MaxCalls]
  /\ requests \in [Flags -> SUBSET (1 .. MaxCalls)]
  /\ calls \in 0 .. MaxCalls
  /\ kind \in [1 .. MaxCalls -> Kinds \union {"none"}]
  /\ pc \in [Callers -> {"idle", "fill", "request", "failed"}]
  /\ call \in [Callers -> 0 .. MaxCalls]
  /\ link \in BOOLEAN /\ event \in BOOLEAN /\ cut \in BOOLEAN
  /\ losses \in 0 .. MaxLosses
  /\ \A f \in Flags : \A i \in requests[f] : Flag(kind[i]) = f

\* The busy flag is a lock: set exactly while a call holds it, and never for
\* two, unless a disconnection was reported during a call.
BusyIsALock ==
  ~cut => \A f \in Flags : Cardinality(Holders(f)) = IF busy[f] THEN 1 ELSE 0

\* The comment over the static structs: params stay as they are until the
\* callback fires, so that the answer goes to the callback of its own call.
ParamsUntouched == \A f \in Flags : requests[f] \subseteq {slot[f]}

\* The same, unless a disconnection was reported during a call.
AnswersGoToTheirCall == ~cut => ParamsUntouched

\* A flag never stays set: a later call gets its turn, also after errors and
\* lost links.
FlagIsCleared == \A f \in Flags : busy[f] ~> ~busy[f]
=============================================================================
