----------------------------- MODULE OptionValues ------------------------------
(***************************************************************************)
(* The values that clients send for the settings of the image and for the  *)
(* corners of the perspective, shared by the modules of these options.     *)
(***************************************************************************)
EXTENDS Naturals

CONSTANTS
  Values,   \* the values of settings that clients ask for
  MAX,      \* PROC_PT_RECTCORNERS_MAX: the corners of a complete list
  Corners,  \* the corners that clients send
  NoFile,   \* stands for the contents of a file that does not exist
  MaxPosts  \* bound: how many corners are posted in a run of the program

ASSUME OptionValuesAssumption ==
  /\ Values \subseteq Nat
  /\ 0 \in Values
  /\ MAX \in Nat \ {0}
  /\ MaxPosts \in Nat
=============================================================================
