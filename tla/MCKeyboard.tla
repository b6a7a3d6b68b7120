----------------------------- MODULE MCKeyboard -----------------------------
(***************************************************************************)
(* A letter, another key, caps lock and shift; three interrupts and a      *)
(* stack of five cells, which they and the EOFs that get_chr puts back     *)
(* fill and overrun.  Cells and characters are numbers, as in the code.    *)
(***************************************************************************)
EXTENDS Keyboard, TLC

CONSTANTS a, one, caps, shift

MCCodeOf == a :> 30 @@ one :> 2 @@ caps :> 58 @@ shift :> 42
MCPlainOf == a :> 1 @@ one :> 3
MCOtherOf == a :> 2 @@ one :> 4
=============================================================================
