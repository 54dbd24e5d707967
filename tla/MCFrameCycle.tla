----------------------------- MODULE MCFrameCycle -----------------------------
(* Instances of FrameCycle for TLC. *)
EXTENDS FrameCycle, TLC

(* The buffers of the camera are interchangeable: no action names one.      *)
FrameSymmetry == Permutations(Frame)
===============================================================================
