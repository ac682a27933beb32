------------------------------ MODULE MCSpinlock ------------------------------
(* Spin locks on two CPUs, each with its interrupt handler, and three locks: *)
(* a CPU may hold two while it spins on the third, or give them up in      *)
(* either order.                                                           *)
EXTENDS Spinlock
=============================================================================
