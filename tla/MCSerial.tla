------------------------------- MODULE MCSerial --------------------------------
(* An instance of Serial for TLC.                                          *)
EXTENDS Serial

Request(fc, at, n, bytes) == [fc |-> fc, at |-> at, n |-> n, data |-> bytes]
(* Of six bytes of registers and four coils: requests at each bound and    *)
(* behind it, and at numbers that wrap.                                    *)
ModbusRequests ==
  {Request("READ_COIL", at, 3, <<>>) : at \in {0, 1, 2}}
  \cup {Request("READ_DISCRETE_INPUT", 0, 4, <<>>), Request("READ_INPUT_REGISTER", 0, 3, <<>>)}
  \cup {Request("READ_REGISTER", at, 2, <<>>) : at \in {1, 3, 9}}
  \cup {Request("WRITE_COIL", at, 1, <<255, 0>>) : at \in {1, 5, 9, 14}}
  \cup {Request("WRITE_COIL", 1, 1, bytes) : bytes \in {<<0, 0>>, <<1, 0>>}}
  \cup {Request("WRITE_REGISTER", at, 1, <<1, 2>>) : at \in {1, 2, 4, 7}}
  \cup {Request("WRITE_MULTIPLE_COILS", at, 3, <<0, 1, 1>>) : at \in {0, 1, 2}}
  \cup {Request("WRITE_MULTIPLE_REGISTERS", at, 1, <<3, 4>>) : at \in {0, 1, 5}}
  \cup {Request("REPORT_SLAVE_ID", 0, 0, <<>>), Request("OTHER", 0, 0, <<>>)}

Cmd(text, ticks) == [reply |-> text, delay |-> ticks]
EspLists == {<<Cmd("OK", 2), Cmd("ready", 3), Cmd("OK", 2)>>, <<Cmd("OK", 1), Cmd("D OK", 1)>>}
=============================================================================
