------------------------- MODULE GattClient_proofs -------------------------
(***************************************************************************)
(* Proofs about the busy flags of the GATT client, for every number of     *)
(* threads and calls.                                                      *)
(***************************************************************************)
EXTENDS GattClient, FiniteSetTheorems, TLAPS

USE BoundAssumption

LEMMA FlagProperties ==
  ASSUME NEW k \in Kinds
  PROVE  Flag(k) \in Flags
BY DEF Flags

-----------------------------------------------------------------------------
(* Type correctness.  It needs that a call in progress is a call, and has a  *)
(* kind.                                                                     *)

CallInv ==
  \A c \in Callers : pc[c] # "idle" => call[c] \in 1 .. calls /\ kind[call[c]] \in Kinds

RequestInv ==
  \A f \in Flags : requests[f] \subseteq 1 .. calls

TypeInv == TypeOK /\ CallInv /\ RequestInv

\* A call in progress has a flag.
LEMMA FlagOfProperties ==
  ASSUME TypeInv, NEW c \in Callers, pc[c] # "idle"
  PROVE  FlagOf(c) \in Flags /\ call[c] \in 1 .. MaxCalls
<1>1. kind[call[c]] \in Kinds /\ call[c] \in 1 .. calls
  BY DEF TypeInv, CallInv
<1>. QED  BY <1>1, FlagProperties DEF FlagOf, TypeInv, TypeOK

LEMMA TypeStep == TypeInv /\ [Next]_vars => TypeInv'
<1> SUFFICES ASSUME TypeInv, [Next]_vars
             PROVE  TypeInv'
  OBVIOUS
<1>. USE DEF TypeInv, TypeOK, CallInv, RequestInv, Goto
<1>1. ASSUME NEW c \in Callers, NEW k \in Kinds, Begin(c, k)
      PROVE  TypeInv'
  <2>1. /\ calls + 1 \in 1 .. MaxCalls /\ calls' = calls + 1
        /\ busy' = [busy EXCEPT ![Flag(k)] = TRUE]
        /\ kind' = [kind EXCEPT ![calls + 1] = k]
        /\ call' = [call EXCEPT ![c] = calls + 1]
        /\ pc' = [pc EXCEPT ![c] = "fill"]
        /\ UNCHANGED <<slot, requests, linkVars, cut>>
    BY <1>1 DEF Begin
  <2>2. \A i \in 1 .. calls : i \in 1 .. MaxCalls /\ i \in 1 .. calls + 1 /\ kind'[i] = kind[i]
    BY <2>1
  <2>3. CallInv'
    <3>1. kind'[calls + 1] = k /\ calls + 1 \in 1 .. calls'
      BY <2>1
    <3>2. ASSUME NEW d \in Callers, pc'[d] # "idle"
          PROVE  call'[d] \in 1 .. calls' /\ kind'[call'[d]] \in Kinds
      <4>1. CASE d = c
        BY <2>1, <3>1, <4>1
      <4>2. CASE d # c
        BY <2>1, <2>2, <3>2, <4>2
      <4>. QED  BY <4>1, <4>2
    <3>. QED  BY <3>2
  <2>4. RequestInv' /\ \A f \in Flags : \A i \in requests'[f] : Flag(kind'[i]) = f
    BY <2>1, <2>2
  <2>5. kind' \in [1 .. MaxCalls -> Kinds \union {"none"}] /\ call' \in [Callers -> 0 .. MaxCalls]
    BY <2>1
  <2>6. busy' \in [Flags -> BOOLEAN] /\ pc' \in [Callers -> {"idle", "fill", "request", "failed"}]
    BY <2>1
  <2>. QED  BY <2>1, <2>3, <2>4, <2>5, <2>6 DEF linkVars
<1>2. ASSUME NEW c \in Callers, Fill(c)
      PROVE  TypeInv'
  BY <1>2, FlagOfProperties DEF Fill, linkVars
<1>3. ASSUME NEW c \in Callers, Accepted(c)
      PROVE  TypeInv'
  <2>1. /\ requests' = [requests EXCEPT ![FlagOf(c)] = @ \union {call[c]}]
        /\ pc[c] # "idle" /\ pc' = [pc EXCEPT ![c] = "idle"]
        /\ UNCHANGED <<busy, slot, calls, kind, call, linkVars, cut>>
    BY <1>3 DEF Accepted
  <2>2. FlagOf(c) \in Flags /\ call[c] \in 1 .. calls /\ call[c] \in 1 .. MaxCalls
    BY <2>1, FlagOfProperties
  <2>3. requests' \in [Flags -> SUBSET (1 .. MaxCalls)] /\ RequestInv'
    BY <2>1, <2>2
  <2>4. \A f \in Flags : \A i \in requests'[f] : Flag(kind'[i]) = f
    BY <2>1, <2>2 DEF FlagOf
  <2>. QED  BY <2>1, <2>3, <2>4 DEF linkVars
<1>4. ASSUME NEW c \in Callers, Refused(c)
      PROVE  TypeInv'
  BY <1>4 DEF Refused, linkVars
<1>5. ASSUME NEW c \in Callers, GiveUp(c)
      PROVE  TypeInv'
  BY <1>5, FlagOfProperties DEF GiveUp, linkVars
<1>6. ASSUME NEW f \in Flags, NEW i \in requests[f], Found(f, i) \/ Done(f, i)
      PROVE  TypeInv'
  <2>1. /\ busy' = [busy EXCEPT ![f] = FALSE]
        /\ requests' = [requests EXCEPT ![f] = @ \ {i}]
        /\ UNCHANGED <<slot, callVars, linkVars, cut>>
    BY <1>6 DEF Found, Done
  <2>2. \A g \in Flags : requests'[g] \subseteq requests[g]
    BY <2>1
  <2>3. requests' \in [Flags -> SUBSET (1 .. MaxCalls)]
    BY <2>1
  <2>4. busy' \in [Flags -> BOOLEAN]
    BY <2>1
  <2>. QED  BY <2>1, <2>2, <2>3, <2>4 DEF callVars, linkVars
<1>7. CASE Connect
  BY <1>7 DEF Connect, callVars
<1>8. CASE LoseLink
  <2>1. losses \in 0 .. MaxLosses /\ losses < MaxLosses /\ losses' = losses + 1
    BY <1>8 DEF LoseLink
  <2>2. losses' \in 0 .. MaxLosses
    BY <2>1
  <2>3. link' = FALSE /\ event' = TRUE /\ UNCHANGED <<busy, slot, requests, callVars, cut>>
    BY <1>8 DEF LoseLink
  <2>. QED  BY <2>2, <2>3 DEF callVars
<1>9. CASE OnConnEvent
  <2>1. cut' \in BOOLEAN
    BY <1>9, Zenon DEF OnConnEvent
  <2>. QED  BY <1>9, <2>1 DEF OnConnEvent, callVars
<1>10. CASE UNCHANGED vars
  BY <1>10 DEF vars, callVars, linkVars
<1>. QED  BY <1>1, <1>2, <1>3, <1>4, <1>5, <1>6, <1>7, <1>8, <1>9, <1>10 DEF Next, InCall, Answer

LEMMA TypeInvHolds == Spec => []TypeInv
<1>1. Init => TypeInv
  <2>1. 0 \in 0 .. MaxCalls /\ 0 \in 0 .. MaxLosses
    OBVIOUS
  <2>2. ASSUME Init
        PROVE  CallInv /\ RequestInv /\ \A f \in Flags : requests[f] = {}
    BY <2>2 DEF Init, CallInv, RequestInv
  <2>3. ASSUME Init
        PROVE  TypeOK
    BY <2>1, <2>2, <2>3 DEF Init, TypeOK
  <2>. QED  BY <2>2, <2>3 DEF TypeInv
<1>. QED  BY <1>1, TypeStep, PTL DEF Spec

\* Every variable keeps its range, and a request is in the list of its flag.
THEOREM TypeCorrect == Spec => []TypeOK
BY TypeInvHolds, PTL DEF TypeInv

-----------------------------------------------------------------------------
(* The busy flag is a lock, and protects the params.                         *)

\* One thread at a time makes a call under a flag, while the flag is set and
\* no request is out.
OneCaller ==
  \A c, d \in Callers : pc[c] # "idle" /\ pc[d] # "idle" /\ FlagOf(c) = FlagOf(d) => c = d

CallerHolds ==
  \A c \in Callers : pc[c] # "idle" => busy[FlagOf(c)] /\ requests[FlagOf(c)] = {}

\* A request that is out is the one its params were filled for, and the flag
\* is set.
RequestHolds ==
  \A f \in Flags : requests[f] # {} => busy[f] /\ requests[f] = {slot[f]}

\* The call that will make a request has filled the params.
Filled == \A c \in Callers : pc[c] = "request" => slot[FlagOf(c)] = call[c]

\* A set flag has a holder.
Held(f) == requests[f] # {} \/ \E c \in Callers : pc[c] # "idle" /\ FlagOf(c) = f
Justified == \A f \in Flags : busy[f] => Held(f)

Lock == OneCaller /\ CallerHolds /\ RequestHolds /\ Filled /\ Justified

\* The inductive invariant.
LockInv == ~cut => Lock

LEMMA LockStep == TypeInv /\ LockInv /\ [Next]_vars => LockInv'
<1> SUFFICES ASSUME TypeInv, LockInv, [Next]_vars, ~cut'
             PROVE  Lock'
  BY DEF LockInv
<1>. USE DEF Goto
<1>a. Lock
  <2>1. ~cut
    BY DEF Next, InCall, Answer, vars, Begin, Fill, Accepted, Refused, GiveUp, Found, Done,
           Connect, LoseLink, OnConnEvent
  <2>. QED  BY <2>1 DEF LockInv
<1>b. \A c \in Callers : pc[c] # "idle" => FlagOf(c) \in Flags
  BY FlagOfProperties
<1>c. /\ busy \in [Flags -> BOOLEAN] /\ DOMAIN requests = Flags /\ DOMAIN slot = Flags
      /\ DOMAIN pc = Callers /\ DOMAIN call = Callers /\ DOMAIN kind = 1 .. MaxCalls
  BY DEF TypeInv, TypeOK
<1>1. ASSUME NEW c \in Callers, NEW k \in Kinds, Begin(c, k)
      PROVE  Lock'
  <2>1. /\ calls + 1 \in 1 .. MaxCalls
        /\ ~busy[Flag(k)] /\ busy' = [busy EXCEPT ![Flag(k)] = TRUE]
        /\ kind' = [kind EXCEPT ![calls + 1] = k]
        /\ call' = [call EXCEPT ![c] = calls + 1]
        /\ pc[c] = "idle" /\ pc' = [pc EXCEPT ![c] = "fill"]
        /\ UNCHANGED <<slot, requests>>
    BY <1>1 DEF Begin, TypeInv, TypeOK
  <2>2. Flag(k) \in Flags
    BY FlagProperties
  <2>3. FlagOf(c)' = Flag(k)
    BY <1>c, <2>1 DEF FlagOf
  <2>4. ASSUME NEW d \in Callers, d # c, pc[d] # "idle"
        PROVE  FlagOf(d)' = FlagOf(d)
    <3>1. call[d] \in 1 .. calls
      BY <2>4 DEF TypeInv, CallInv
    <3>2. call'[d] = call[d] /\ call[d] # calls + 1
      BY <1>c, <2>1, <2>4, <3>1 DEF TypeInv, TypeOK
    <3>. QED  BY <1>c, <2>1, <3>2 DEF FlagOf
  <2>5. \A d \in Callers : pc[d] # "idle" => FlagOf(d) # Flag(k)
    BY <1>a, <2>1 DEF Lock, CallerHolds
  <2>6. requests[Flag(k)] = {}
    BY <1>a, <2>1, <2>2 DEF Lock, RequestHolds
  <2>7. \A d \in Callers : d # c => pc'[d] = pc[d] /\ call'[d] = call[d]
    BY <1>c, <2>1
  <2>8. pc'[c] = "fill"
    BY <1>c, <2>1
  <2>9. busy'[Flag(k)] /\ \A f \in Flags : f # Flag(k) => busy'[f] = busy[f]
    BY <1>c, <2>1, <2>2
  <2>10. OneCaller'
    <3>. SUFFICES ASSUME NEW d \in Callers, NEW e \in Callers,
                         pc'[d] # "idle", pc'[e] # "idle", FlagOf(d)' = FlagOf(e)'
                  PROVE  d = e
      BY DEF OneCaller
    <3>1. CASE d = c \/ e = c
      BY <2>3, <2>4, <2>5, <2>7, <3>1
    <3>2. CASE d # c /\ e # c
      BY <1>a, <2>4, <2>7, <3>2 DEF Lock, OneCaller
    <3>. QED  BY <3>1, <3>2
  <2>11. CallerHolds'
    <3>. SUFFICES ASSUME NEW d \in Callers, pc'[d] # "idle"
                  PROVE  busy'[FlagOf(d)'] /\ requests'[FlagOf(d)'] = {}
      BY DEF CallerHolds
    <3>1. CASE d = c
      BY <2>1, <2>3, <2>6, <2>9, <3>1
    <3>2. CASE d # c
      BY <1>a, <1>b, <2>1, <2>4, <2>5, <2>7, <2>9, <3>2 DEF Lock, CallerHolds
    <3>. QED  BY <3>1, <3>2
  <2>12. RequestHolds'
    BY <1>a, <2>1, <2>9 DEF Lock, RequestHolds
  <2>13. Filled'
    <3>. SUFFICES ASSUME NEW d \in Callers, pc'[d] = "request"
                  PROVE  slot'[FlagOf(d)'] = call'[d]
      BY DEF Filled
    <3>1. d # c /\ pc[d] = "request"
      BY <2>7, <2>8
    <3>. QED  BY <1>a, <2>1, <2>4, <2>7, <3>1 DEF Lock, Filled
  <2>14. Justified'
    <3>. SUFFICES ASSUME NEW f \in Flags, busy'[f]
                  PROVE  Held(f)'
      BY DEF Justified
    <3>1. CASE f = Flag(k)
      BY <2>3, <2>8, <3>1 DEF Held
    <3>2. CASE f # Flag(k)
      <4>1. Held(f)
        BY <1>a, <2>9, <3>2 DEF Lock, Justified
      <4>. QED  BY <2>1, <2>4, <2>7, <4>1 DEF Held
    <3>. QED  BY <3>1, <3>2
  <2>. QED  BY <2>10, <2>11, <2>12, <2>13, <2>14 DEF Lock
<1>d. ASSUME UNCHANGED <<call, kind>>
      PROVE  \A d \in Callers : FlagOf(d)' = FlagOf(d)
  BY <1>d DEF FlagOf
<1>2. ASSUME NEW c \in Callers, Fill(c)
      PROVE  Lock'
  <2>1. /\ pc[c] = "fill" /\ pc' = [pc EXCEPT ![c] = "request"]
        /\ slot' = [slot EXCEPT ![FlagOf(c)] = call[c]]
        /\ UNCHANGED <<busy, requests, kind, call>>
    BY <1>2 DEF Fill
  <2>2. \A d \in Callers : FlagOf(d)' = FlagOf(d)
    BY <2>1, <1>d
  <2>3. FlagOf(c) \in Flags /\ requests[FlagOf(c)] = {}
    BY <1>a, <1>b, <2>1 DEF Lock, CallerHolds
  <2>4. \A d \in Callers : (pc'[d] # "idle" <=> pc[d] # "idle") /\ (d # c => pc'[d] = pc[d])
    BY <1>c, <2>1
  <2>5. slot'[FlagOf(c)] = call[c] /\ \A f \in Flags : f # FlagOf(c) => slot'[f] = slot[f]
    BY <1>c, <2>1, <2>3
  <2>6. OneCaller' /\ CallerHolds'
    BY <1>a, <2>1, <2>2, <2>4 DEF Lock, OneCaller, CallerHolds
  <2>7. RequestHolds'
    BY <1>a, <2>1, <2>3, <2>5 DEF Lock, RequestHolds
  <2>8. Filled'
    <3>. SUFFICES ASSUME NEW d \in Callers, pc'[d] = "request"
                  PROVE  slot'[FlagOf(d)] = call[d]
      BY <2>1, <2>2 DEF Filled
    <3>1. CASE d = c
      BY <2>5, <3>1
    <3>2. CASE d # c
      <4>1. FlagOf(d) # FlagOf(c) /\ FlagOf(d) \in Flags /\ pc[d] = "request"
        BY <1>a, <1>b, <2>1, <2>4, <3>2 DEF Lock, OneCaller
      <4>. QED  BY <1>a, <2>5, <4>1 DEF Lock, Filled
    <3>. QED  BY <3>1, <3>2
  <2>9. Justified'
    BY <1>a, <2>1, <2>2, <2>4 DEF Lock, Justified, Held
  <2>. QED  BY <2>6, <2>7, <2>8, <2>9 DEF Lock
<1>3. ASSUME NEW c \in Callers, Accepted(c)
      PROVE  Lock'
  <2>1. /\ pc[c] = "request" /\ pc' = [pc EXCEPT ![c] = "idle"]
        /\ requests' = [requests EXCEPT ![FlagOf(c)] = @ \union {call[c]}]
        /\ UNCHANGED <<busy, slot, kind, call>>
    BY <1>3 DEF Accepted
  <2>2. \A d \in Callers : FlagOf(d)' = FlagOf(d)
    BY <2>1, <1>d
  <2>3. /\ FlagOf(c) \in Flags /\ busy[FlagOf(c)] /\ requests[FlagOf(c)] = {}
        /\ slot[FlagOf(c)] = call[c]
    BY <1>a, <1>b, <2>1 DEF Lock, CallerHolds, Filled
  <2>4. \A d \in Callers : pc'[d] # "idle" => d # c /\ pc[d] = pc'[d]
    BY <1>c, <2>1
  <2>5. \A d \in Callers : d # c => pc'[d] = pc[d]
    BY <1>c, <2>1
  <2>6. requests'[FlagOf(c)] = {call[c]} /\ \A f \in Flags : f # FlagOf(c) => requests'[f] = requests[f]
    BY <1>c, <2>1, <2>3
  <2>7. \A d \in Callers : pc'[d] # "idle" => FlagOf(d) \in Flags /\ FlagOf(d) # FlagOf(c)
    BY <1>a, <1>b, <2>1, <2>4 DEF Lock, OneCaller
  <2>8. OneCaller' /\ Filled'
    BY <1>a, <2>1, <2>2, <2>4 DEF Lock, OneCaller, Filled
  <2>9. CallerHolds'
    BY <1>a, <2>1, <2>2, <2>4, <2>6, <2>7 DEF Lock, CallerHolds
  <2>10. RequestHolds'
    BY <1>a, <2>1, <2>3, <2>6 DEF Lock, RequestHolds
  <2>11. Justified'
    <3>. SUFFICES ASSUME NEW f \in Flags, busy[f]
                  PROVE  Held(f)'
      BY <2>1 DEF Justified
    <3>1. CASE f = FlagOf(c)
      BY <2>6, <3>1 DEF Held
    <3>2. CASE f # FlagOf(c)
      <4>1. Held(f)
        BY <1>a DEF Lock, Justified
      <4>. QED  BY <2>2, <2>5, <2>6, <3>2, <4>1 DEF Held
    <3>. QED  BY <3>1, <3>2
  <2>. QED  BY <2>8, <2>9, <2>10, <2>11 DEF Lock
<1>4. ASSUME NEW c \in Callers, Refused(c)
      PROVE  Lock'
  <2>1. /\ pc[c] = "request" /\ pc' = [pc EXCEPT ![c] = "failed"]
        /\ UNCHANGED <<busy, slot, requests, kind, call>>
    BY <1>4 DEF Refused
  <2>2. \A d \in Callers : FlagOf(d)' = FlagOf(d)
    BY <2>1, <1>d
  <2>3. \A d \in Callers : (pc'[d] # "idle" <=> pc[d] # "idle") /\ (pc'[d] = "request" => pc[d] = "request")
    BY <1>c, <2>1
  <2>4. OneCaller' /\ CallerHolds'
    BY <1>a, <2>1, <2>2, <2>3 DEF Lock, OneCaller, CallerHolds
  <2>5. RequestHolds' /\ Filled'
    BY <1>a, <2>1, <2>2, <2>3 DEF Lock, RequestHolds, Filled
  <2>6. Justified'
    BY <1>a, <2>1, <2>2, <2>3 DEF Lock, Justified, Held
  <2>. QED  BY <2>4, <2>5, <2>6 DEF Lock
<1>5. ASSUME NEW c \in Callers, GiveUp(c)
      PROVE  Lock'
  <2>1. /\ pc[c] = "failed" /\ pc' = [pc EXCEPT ![c] = "idle"]
        /\ busy' = [busy EXCEPT ![FlagOf(c)] = FALSE]
        /\ UNCHANGED <<slot, requests, kind, call>>
    BY <1>5 DEF GiveUp
  <2>2. \A d \in Callers : FlagOf(d)' = FlagOf(d)
    BY <2>1, <1>d
  <2>3. FlagOf(c) \in Flags /\ requests[FlagOf(c)] = {}
    BY <1>a, <1>b, <2>1 DEF Lock, CallerHolds
  <2>4. \A d \in Callers : pc'[d] # "idle" => d # c /\ pc[d] = pc'[d]
    BY <1>c, <2>1
  <2>5. \A d \in Callers : d # c => pc'[d] = pc[d]
    BY <1>c, <2>1
  <2>6. ~busy'[FlagOf(c)] /\ \A f \in Flags : f # FlagOf(c) => busy'[f] = busy[f]
    BY <1>c, <2>1, <2>3
  <2>7. \A d \in Callers : pc'[d] # "idle" => FlagOf(d) \in Flags /\ FlagOf(d) # FlagOf(c)
    BY <1>a, <1>b, <2>1, <2>4 DEF Lock, OneCaller
  <2>8. OneCaller' /\ Filled'
    BY <1>a, <2>1, <2>2, <2>4 DEF Lock, OneCaller, Filled
  <2>9. CallerHolds'
    BY <1>a, <2>1, <2>2, <2>4, <2>6, <2>7 DEF Lock, CallerHolds
  <2>10. RequestHolds'
    BY <1>a, <2>1, <2>3, <2>6 DEF Lock, RequestHolds
  <2>11. Justified'
    <3>. SUFFICES ASSUME NEW f \in Flags, f # FlagOf(c), busy[f]
                  PROVE  Held(f)'
      BY <2>6 DEF Justified
    <3>1. Held(f)
      BY <1>a DEF Lock, Justified
    <3>. QED  BY <2>1, <2>2, <2>5, <3>1 DEF Held
  <2>. QED  BY <2>8, <2>9, <2>10, <2>11 DEF Lock
<1>6. ASSUME NEW f \in Flags, NEW i \in requests[f], Found(f, i) \/ Done(f, i)
      PROVE  Lock'
  <2>1. /\ busy' = [busy EXCEPT ![f] = FALSE]
        /\ requests' = [requests EXCEPT ![f] = @ \ {i}]
        /\ UNCHANGED <<slot, kind, pc, call>>
    BY <1>6 DEF Found, Done, callVars
  <2>2. \A d \in Callers : FlagOf(d)' = FlagOf(d)
    BY <2>1, <1>d
  <2>3. requests[f] = {i}
    BY <1>a DEF Lock, RequestHolds
  <2>4. ~busy'[f] /\ requests'[f] = {}
    BY <1>c, <2>1, <2>3
  <2>5. \A g \in Flags : g # f => busy'[g] = busy[g] /\ requests'[g] = requests[g]
    BY <1>c, <2>1
  <2>6. \A d \in Callers : pc[d] # "idle" => FlagOf(d) \in Flags /\ FlagOf(d) # f
    BY <1>a, <1>b, <2>3 DEF Lock, CallerHolds
  <2>7. OneCaller' /\ Filled'
    BY <1>a, <2>1, <2>2 DEF Lock, OneCaller, Filled
  <2>8. CallerHolds'
    BY <1>a, <2>1, <2>2, <2>5, <2>6 DEF Lock, CallerHolds
  <2>9. RequestHolds'
    BY <1>a, <2>1, <2>4, <2>5 DEF Lock, RequestHolds
  <2>10. Justified'
    BY <1>a, <2>1, <2>2, <2>4, <2>5 DEF Lock, Justified, Held
  <2>. QED  BY <2>7, <2>8, <2>9, <2>10 DEF Lock
<1>7. CASE OnConnEvent
  <2>1. /\ \A c \in Callers : pc'[c] = "idle"
        /\ \A f \in Flags : ~busy'[f] /\ requests'[f] = {}
    BY <1>7 DEF OnConnEvent, callVars
  <2>. QED  BY <2>1 DEF Lock, OneCaller, CallerHolds, RequestHolds, Filled, Justified
<1>8. CASE Connect \/ LoseLink \/ UNCHANGED vars
  <2>1. UNCHANGED <<busy, slot, requests, kind, pc, call>>
    BY <1>8 DEF Connect, LoseLink, vars, callVars
  <2>2. \A d \in Callers : FlagOf(d)' = FlagOf(d)
    BY <2>1, <1>d
  <2>3. OneCaller' /\ CallerHolds' /\ RequestHolds' /\ Filled'
    BY <1>a, <2>1, <2>2 DEF Lock, OneCaller, CallerHolds, RequestHolds, Filled
  <2>4. Justified'
    BY <1>a, <2>1, <2>2 DEF Lock, Justified, Held
  <2>. QED  BY <2>3, <2>4 DEF Lock
<1>. QED  BY <1>1, <1>2, <1>3, <1>4, <1>5, <1>6, <1>7, <1>8 DEF Next, InCall, Answer

LEMMA LockInvHolds == Spec => []LockInv
<1>1. Init => LockInv
  BY DEF Init, LockInv, Lock, OneCaller, CallerHolds, RequestHolds, Filled, Justified
<1>. QED  BY <1>1, TypeInvHolds, LockStep, PTL DEF Spec

\* At most one call holds a flag, whatever the number of threads: the flag is
\* set exactly while one does, unless a disconnection was reported during a
\* call.
THEOREM BusyIsALockHolds == Spec => []BusyIsALock
<1>1. TypeInv /\ LockInv => BusyIsALock
  <2>. SUFFICES ASSUME TypeInv, Lock, NEW f \in Flags
                PROVE  Cardinality(Holders(f)) = IF busy[f] THEN 1 ELSE 0
    BY DEF BusyIsALock, LockInv
  <2>. USE DEF Lock
  <2>1. CASE ~busy[f]
    <3>1. Holders(f) = {}
      BY <2>1 DEF CallerHolds, RequestHolds, Holders, Making
    <3>. QED  BY <2>1, <3>1, FS_EmptySet
  <2>2. CASE busy[f]
    <3>1. \E i : Holders(f) = {i}
      <4>1. CASE requests[f] # {}
        BY <4>1 DEF CallerHolds, RequestHolds, Holders, Making
      <4>2. ASSUME NEW c \in Callers, pc[c] # "idle", FlagOf(c) = f
            PROVE  Holders(f) = {call[c]}
        BY <4>2 DEF OneCaller, CallerHolds, Holders, Making
      <4>. QED  BY <2>2, <4>1, <4>2 DEF Justified, Held
    <3>. QED  BY <2>2, <3>1, FS_Singleton
  <2>. QED  BY <2>1, <2>2
<1>. QED  BY <1>1, TypeInvHolds, LockInvHolds, PTL

\* The answer to a request goes to the callback of the call that made it: its
\* params are the ones filled last, unless a disconnection was reported during
\* a call.
THEOREM AnswersGoToTheirCallHolds == Spec => []AnswersGoToTheirCall
<1>1. LockInv => AnswersGoToTheirCall
  BY DEF LockInv, Lock, RequestHolds, AnswersGoToTheirCall, ParamsUntouched
<1>. QED  BY <1>1, LockInvHolds, PTL
=============================================================================
