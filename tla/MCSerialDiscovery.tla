------------------------- MODULE MCSerialDiscovery -------------------------
(***************************************************************************)
(* Model values for SerialDiscovery, on the buses of MCPci.  Two letters   *)
(* spell the options, which are beginnings and ends of each other; the     *)
(* buffer holds seven characters and the NUL.                              *)
(***************************************************************************)
EXTENDS SerialDiscovery, MCPci

CONSTANTS a, p

MCLetters == {a, p}
MCPromisc == <<p>>
MCAcceptLegacy == <<p, a>>
MCPhysMax == <<a, a>>

(* Nothing; the name alone, with one option, and with two.                 *)
MCCmdlines ==
  { <<>>, <<p>>, <<a, Blank, p>>, <<a, Blank, p, a, Blank, a, a>>,
    <<a, Blank, p, a, Blank, p>> }

(* No device; a floppy (bit 0); one serial port; three serial ports, a     *)
(* game port, and bits above and below.                                    *)
MCEquipments == {0, 1, 512, 8192 + 4096 + 3 * 512 + 256 + 2}

=============================================================================
