----------------------------- MODULE PipeBender -----------------------------
(***************************************************************************)
(* The angles of pipe_bender_ui: a timer sweeps the target angle up and    *)
(* down and lets the live angle follow, the buttons step the target and    *)
(* wrap it.  Angles are in half degrees, on a shorter scale.  All of it    *)
(* runs in the LVGL thread, one callback after the other.                  *)
(***************************************************************************)
EXTENDS Program, Integers

CONSTANTS
  MaxAngle,   (* TARGET_ANGLE_MAX; TARGET_ANGLE_MIN is 0                     *)
  ClickStep,  (* TARGET_ANGLE_STEP                                           *)
  SweepStep   (* DEMO_TARGET_STEP_DEG                                        *)

AngleAssumption == {MaxAngle, ClickStep, SweepStep} \subseteq Nat \ {0} /\ ClickStep < MaxAngle

\* The texts of the four labels at rest.
Labels(target, live) == [tgt |-> target, tgt_bold |-> target, live |-> live, live_bold |-> live]

\* The end of pipe_bender_ui_create.
Init ==
  /\ mem = [target |-> 0, live |-> 0, dir |-> 1, label |-> Labels(0, 0)]
  /\ pc = [lvgl |-> "idle"]
  /\ seen = <<>>

\* fmodf keeps the sign of its first argument.
FMod(a, r) == IF a >= 0 THEN a % r ELSE -((-a) % r)

Stepped(delta) ==
  LET angle == FMod(mem.target + delta, MaxAngle)
  IN IF angle < 0 THEN angle + MaxAngle ELSE angle

\* target_angle_plus_cb and target_angle_minus_cb
Click ==
  \E delta \in {ClickStep, -ClickStep} :
    /\ mem' = [mem EXCEPT !.target = Stepped(delta),
                          !.label.tgt = Stepped(delta), !.label.tgt_bold = Stepped(delta)]
    /\ UNCHANGED <<pc, seen>>

Clamped(a) == IF a < 0 THEN 0 ELSE IF a > MaxAngle THEN MaxAngle ELSE a

\* demo_sim_timer_cb; the live angle goes some of the way to the target.
Sweep ==
  LET next   == mem.target + mem.dir * SweepStep
      target == Clamped(next)
      dir    == IF next >= MaxAngle THEN -1 ELSE IF next <= 0 THEN 1 ELSE mem.dir
  IN \E way \in 0 .. MaxAngle :
       /\ way <= target - mem.live \/ way <= mem.live - target
       /\ LET live == Clamped(IF target >= mem.live THEN mem.live + way ELSE mem.live - way)
          IN mem' = [target |-> target, live |-> live, dir |-> dir, label |-> Labels(target, live)]
       /\ UNCHANGED <<pc, seen>>

Step(t) ==
  \/ t = "user" /\ Click
  \/ t = "timer" /\ Sweep

TypeOK ==
  /\ {mem.target, mem.live} \subseteq 0 .. MaxAngle
  /\ mem.dir \in {-1, 1}

\* Whatever the buttons and the timer do between them, all four labels show
\* the present angles, and at an end of the scale the sweep turns round.
NoUpdateLost ==
  /\ mem.label = Labels(mem.target, mem.live)
  /\ mem.target = MaxAngle => mem.dir = -1
=============================================================================
