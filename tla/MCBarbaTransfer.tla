---------------------------- MODULE MCBarbaTransfer ----------------------------
(* Small transfers of BarbaTransfer for TLC.  The configurations stand for   *)
(* all: each word alone, what is needed for payloads, and all words.         *)
EXTENDS BarbaTransfer

MCWords == {{"normal"}, {"bombard"}, {"/get"}, {"/getpayload"}, {"/post"}, {"/postreply"},
            {"/post", "/postreply", "/postreplypayload"}, {"/postreply", "/postreplypayload"}}
MCConfigs == {[tunnel |-> "HTTP", words |-> w] : w \in MCWords} \cup
             {[tunnel |-> "TCP", words |-> {"none"}]}
MCTcpConfigs == {[tunnel |-> "TCP", words |-> {"none"}]}
MCFileHeaderSizes == {0, 1}
MCMinPacketSizes == {0, 3}
MCMessageSizes == [sender |-> <<2, 1>>, receiver |-> <<1, 2>>]
=============================================================================
