---------------------------- MODULE ObjectLoops ----------------------------
(***************************************************************************)
(* The loops by which is_valid_push and process_gravity (snakebird.h) find *)
(* the objects that move together.  Snakebird says which objects those are *)
(* as the least and the greatest set that is closed; here they are found   *)
(* as in the code: passes over all objects, in the order of their numbers, *)
(* until a pass changes nothing.  An object that is added in a pass is     *)
(* seen by those that come after it in the same pass.                      *)
(***************************************************************************)
EXTENDS Snakebird

-----------------------------------------------------------------------------
(***************************************************************************)
(* is_valid_push.                                                          *)
(***************************************************************************)
\* An object that has to be pushed is looked at: either nothing can be
\* pushed, or what is in its way has to be pushed too.
PushedWith(pusher, delta, r, o) ==
  IF ~r.valid \/ o \notin r.ids THEN r
  ELSE [ valid |-> can_be_pushed(o, delta),
         ids   |-> r.ids \union Obstructing(pusher, o, delta) ]

PushPass(pusher, delta, ids) ==
  LET r[o \in 0 .. ObjCount] ==
        IF o = 0 THEN [valid |-> TRUE, ids |-> ids]
        ELSE LET before == r[o - 1] IN PushedWith(pusher, delta, before, o)
  IN  r[ObjCount]

\* Mutant: a single pass.
MutPushLoop(pusher, delta, ids) == PushPass(pusher, delta, ids)

\* The result of as many passes as it takes; each one but the last adds an
\* object.
PushLoop(pusher, delta, ids) ==
  LET r[n \in 0 .. (ObjCount + 1)] ==
        IF n = 0 THEN [valid |-> TRUE, ids |-> ids]
        ELSE LET before == r[n - 1]
             IN  IF before.valid THEN PushPass(pusher, delta, before.ids) ELSE before
  IN  r[ObjCount + 1]

\* The objects pushed when this snake moves by delta, or none.
Pushed(pusher, delta) ==
  LET front == PushMapObjectsAt(pusher, snakes[pusher][1] + delta)
      r     == PushLoop(pusher, delta, front)
  IN  IF front \subseteq {pusher} \/ ~r.valid \/ pusher \in r.ids THEN {} ELSE r.ids

-----------------------------------------------------------------------------
(***************************************************************************)
(* process_gravity.                                                        *)
(***************************************************************************)
\* falling[o]: what the object may be standing on, and itself; nothing when
\* it is known not to fall.
falling(o) ==
  IF InPlay(o) /\ o \in recompute_falling /\ ~Grounded(o) THEN {o} \union StandsOn(o) ELSE {}

SupportPass(supported) ==
  LET r[o \in 0 .. ObjCount] ==
        IF o = 0 THEN supported
        ELSE LET before == r[o - 1]
             IN  IF before \intersect falling(o) # {} THEN before \union {o} ELSE before
  IN  r[ObjCount]

\* Mutant: a single pass.
MutSupportLoop(supported) == SupportPass(supported)

SupportLoop(supported) ==
  LET r[n \in 0 .. ObjCount] ==
        IF n = 0 THEN supported ELSE LET before == r[n - 1] IN SupportPass(before)
  IN  r[ObjCount]

Unsupported == Objects \ SupportLoop({o \in Objects : falling(o) = {}})

-----------------------------------------------------------------------------
(***************************************************************************)
(* Properties.                                                             *)
(***************************************************************************)
\* The loop of is_valid_push ends with the least set of objects that have to
\* move, where there is one, however the objects are numbered and whatever
\* they push: each other, in circles, or the pusher.
PushLoopFindsLeast ==
  phase = "moves" =>
    \A s \in Snakes, delta \in Steps :
      snakes[s] # <<>> =>
        LET front == PushMapObjectsAt(s, snakes[s][1] + delta)
        IN  IF front = {} \/ PushableSets(s, delta) = {} THEN Pushed(s, delta) = {}
            ELSE is_valid_push(s, delta, Pushed(s, delta))

\* The loop of process_gravity leaves just the objects that stand on nothing
\* but each other, also where they stand on each other in circles.
SupportLoopFindsFalling == phase = "gravity" => Unsupported = Falling(recompute_falling)

=============================================================================
