------------------------------ MODULE MCParts -------------------------------
(***************************************************************************)
(* Constant values and the composition for model-checking in one run the   *)
(* components that share no state: those of Views, and WgQuickReader.      *)
(* None disables a step of another, so TLC looks at the behaviours in      *)
(* which one of them moves, for each of them.                              *)
(***************************************************************************)
EXTENDS Views, WgQuickReader, TLC

CONSTANTS a

VARIABLE moving   \* the component that moves

vars == <<moving, logsVars, compareVars, readerVars, rowsVars, bar,
          chromeVars, preview, formVars, statusVars>>

\* A global event, an error about a, and what is below every threshold.
TabKinds ==
  {[level |-> Debug, conn |-> Global, hit |-> FALSE],
   [level |-> Error, conn |-> a, hit |-> TRUE],
   [level |-> Trace, conn |-> a, hit |-> FALSE]}

Stems == [mia |-> 3]

\* A key, a peer, lists that go on, a number in and out of range, servers with a
\* domain and an empty token, a comment, and a line without "=".
TextPieces ==
  {<<InterfaceHeader>>, <<InterfaceHeader, Line("PrivateKey", <<"k">>)>>,
   <<PeerHeader, Line("PublicKey", <<"k">>), Line("AllowedIPs", <<"10/8">>)>>,
   <<Line("AllowedIPs", <<"a", "b">>)>>, <<Line("MTU", <<"1420">>)>>,
   <<Line("MTU", <<"70000">>)>>, <<Line("FwMark", <<"70000">>)>>,
   <<Line("DNS", <<"1.1.1.1", "corp", "">>)>>, <<Line("DNS", <<"corp">>)>>,
   <<Line("PostUp", <<"x">>), Comment>>, <<Line("", <<>>)>>}

HandshakeAges == {-1, 180, 181}

\* Two connections, one with a peer.
Forms ==
  {[name |-> "mia", iface |-> <<"51820", "", "10/8">>, peers |-> << <<"hub", "0">> >>],
   [name |-> "ord", iface |-> <<"", "1.1.1.1", "">>, peers |-> <<>>]}

Init == /\ moving \in {"logs", "compare", "reader", "rows", "bar", "chrome", "diff", "form",
                      "status"}
        /\ LogsInit /\ CompareInit /\ ReaderInit /\ ChromeInit
        /\ RowsInit /\ (moving # "rows" => ui.conns = {})
        /\ BarInit /\ (moving # "bar" => bar.width = 80)
        /\ FormInit /\ (moving # "form" => viewed = <<>>) /\ StatusInit
        /\ DiffInit /\ (moving # "diff" => Pending = <<>> /\ preview.height = 9)

Next ==
  \/ /\ moving = "logs" /\ LogsNext /\ UNCHANGED moving
     /\ UNCHANGED <<compareVars, readerVars, rowsVars, bar, chromeVars, preview, formVars, statusVars>>
  \/ /\ moving = "compare" /\ CompareNext /\ UNCHANGED moving
     /\ UNCHANGED <<logsVars, readerVars, rowsVars, bar, chromeVars, preview, formVars, statusVars>>
  \/ /\ moving = "reader" /\ ReaderNext /\ UNCHANGED moving
     /\ UNCHANGED <<logsVars, compareVars, rowsVars, bar, chromeVars, preview, formVars, statusVars>>
  \/ /\ moving = "rows" /\ RowsNext /\ UNCHANGED moving
     /\ UNCHANGED <<logsVars, compareVars, readerVars, bar, chromeVars, preview, formVars, statusVars>>
  \/ /\ moving = "bar" /\ Redraw /\ UNCHANGED moving
     /\ UNCHANGED <<logsVars, compareVars, readerVars, rowsVars, chromeVars, preview, formVars, statusVars>>
  \/ /\ moving = "chrome" /\ ChromeNext /\ UNCHANGED moving
     /\ UNCHANGED <<logsVars, compareVars, readerVars, rowsVars, bar, preview, formVars, statusVars>>
  \/ /\ moving = "diff" /\ DiffNext /\ UNCHANGED moving
     /\ UNCHANGED <<logsVars, compareVars, readerVars, rowsVars, bar, chromeVars, formVars, statusVars>>
  \/ /\ moving = "form" /\ FormNext /\ UNCHANGED moving
     /\ UNCHANGED <<logsVars, compareVars, readerVars, rowsVars, bar, chromeVars, preview, statusVars>>
  \/ /\ moving = "status" /\ StatusNext /\ UNCHANGED moving
     /\ UNCHANGED <<logsVars, compareVars, readerVars, rowsVars, bar, chromeVars, preview, formVars>>

Spec == Init /\ [][Next]_vars
=============================================================================
