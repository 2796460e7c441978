--------------------------- MODULE MCJavaWallet ---------------------------
(***************************************************************************)
(* The Java front end on the instance of MCWalletApi: an array that its    *)
(* caller may write, and the wallet's own random one.  Of the seeds it may *)
(* hold two are good, one has a master key of zero and one an overflow.    *)
(***************************************************************************)
EXTENDS JavaWallet, MCWalletApi

MCHeap == [a \in Array |-> IF a \in SharedArray THEN <<0, 0>> ELSE <<0, 1>>]

AllTexts == {Malformed, NullText, [text |-> "path", path |-> Whole(0, 2)]}

(* Each method with good arguments, and with each kind of bad ones. *)
MCOffered(known) ==
    LET Way == [text |-> "path", path |-> Whole(0, 2)]
        shared == CHOOSE a \in SharedArray : TRUE
    IN  {OnWallet("getPrivateKey", a, Way, 0, 0, FALSE) :
            a \in Array \cup {NullArray}}
        \cup {OnWallet(c, shared, NullText, 0, 0, FALSE) :
                c \in AccountCalls \cup {"getPublicKey"}}
        \cup {OnWallet("getTronAddress", shared, text, 0, 0, FALSE) :
                text \in {Way, Malformed}}
        \cup {OnWallet("getPublicExtended", NullArray, NullText, 0, 0, TRUE),
              OnText("getPublicKeyFromExtended", NoExtended, Way)}
        \cup {OnText(c, e, Way) : c \in ExtendedCalls, e \in Foreign \cup known}

FullPath == {Whole(0, 2)}
OneForeign == {ForeignKey("xpub", <<3, 4>>)}
=============================================================================
