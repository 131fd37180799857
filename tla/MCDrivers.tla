----------------------------- MODULE MCDrivers -----------------------------
(* Small instances of all the drivers.                                     *)
EXTENDS Drivers, TLC
ModuleGroups == {<<1, 2>>, <<1, 3>>}

\* Two scancodes, one of them with either toggle bit.
RcMsgs == {<<"s1", FALSE>>, <<"s1", TRUE>>, <<"s2", FALSE>>}

\* A scancode of each variant of the protocol, with bytes of two bits.
IrCodes ==
  {[proto |-> "nec", address |-> <<0, 1>>, command |-> <<1, 1>>],
   [proto |-> "necx", address |-> <<0, 1>>, not_address |-> <<0, 1>>, command |-> <<1, 0>>],
   [proto |-> "nec32", address |-> <<0, 0>>, not_address |-> <<1, 0>>,
    command |-> <<1, 0>>, not_command |-> <<1, 1>>]}
IrSkew == {-1, 1}
=============================================================================
