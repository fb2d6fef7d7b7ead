----------------------------- MODULE MCPinctrl -----------------------------
(***************************************************************************)
(* Instances of Pinctrl for TLC: packets that make a ring overflow and     *)
(* wrap around, replies that overtake each other, packets and replies for  *)
(* more addresses than the maps have room for, a lost connection, and      *)
(* changes of the bridge's name and of what is announced.                  *)
(***************************************************************************)
EXTENDS Pinctrl

CONSTANTS i1, i2

Load(p, m, d, c, is) ==
  [packets |-> p, macs |-> m, drops |-> d, changes |-> c, ips |-> is]

Overflow == Load(3, 1, 0, 0, {i1})
Replies  == Load(2, 2, 0, 0, {i1})
Full     == Load(2, 0, 0, 0, {i1, i2})
FullPut  == Load(0, 2, 0, 0, {i1, i2})
Lost     == Load(1, 1, 1, 0, {i1})
Changes  == Load(0, 0, 1, 2, {})
AllLoads == {Overflow, Replies, Full, FullPut, Lost, Changes}
=============================================================================
