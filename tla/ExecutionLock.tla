---------------------------- MODULE ExecutionLock ----------------------------
(***************************************************************************)
(* What a room promises about running code, whoever asks and whatever      *)
(* fails: one execution at a time, none once the submissions are spent, a  *)
(* submission charged exactly when the daily quota was reserved for it and *)
(* only when the room is released, and the room is always released.        *)
(***************************************************************************)
EXTENDS Naturals

CONSTANT Limit  \* submissions the room may make

VARIABLES
  locked,  \* code is running
  due,     \* the execution that runs will be charged
  used     \* submissions charged

lockVars == <<locked, due, used>>

LockInit == ~locked /\ ~due /\ used = 0

Acquire ==
  /\ ~locked
  /\ used < Limit
  /\ locked' = TRUE
  /\ UNCHANGED <<due, used>>

\* The daily quota grants the submission.
Reserve ==
  /\ locked /\ ~due
  /\ due' = TRUE
  /\ UNCHANGED <<locked, used>>

Release ==
  /\ locked
  /\ locked' = FALSE
  /\ due' = FALSE
  /\ used' = IF due THEN used + 1 ELSE used

LockNext == Acquire \/ Reserve \/ Release

LockSpec == LockInit /\ [][LockNext]_lockVars

FairLockSpec == LockSpec /\ (locked ~> ~locked)
=============================================================================
