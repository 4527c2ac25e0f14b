---------------------------- MODULE MCClientMap ----------------------------
(* Small instances of ClientMap for TLC: clients in one subnet, in two, and *)
(* two clients behind one address.                                          *)
EXTENDS ClientMap

At(b1, b4, port) == [ip |-> <<b1, 0, 0, b4>>, port |-> port]

MCClients ==
  {At(1, 1, 7), At(1, 2, 7), At(1, 2, 9), At(1, 3, 7), At(2, 9, 7), At(3, 1, 7),
   At(3, 1, 9), At(3, 9, 7), At(3, 9, 9)}
OneSubnet == {At(1, 1, 7), At(1, 2, 7), At(1, 3, 7)}
=============================================================================
