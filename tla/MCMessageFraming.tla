-------------------------- MODULE MCMessageFraming --------------------------
(***************************************************************************)
(* Four scripts: messages in every form under three indices, a block in    *)
(* the middle and at the end, messages without bytes, an unknown index.    *)
(* Receivers that know index 1 or not.  And two pairs of messages to send  *)
(* back.                                                                   *)
(***************************************************************************)
EXTENDS MessageFraming

Plain(pieces)   == [block |-> FALSE, pieces |-> pieces]
InBlock(pieces) == [block |-> TRUE, pieces |-> pieces]

Small(i, pieces) == [index |-> i, small |-> TRUE, items |-> <<Plain(pieces)>>]
Large(i, items)  == [index |-> i, small |-> FALSE, items |-> items]

MCScript == {
    <<Large(1, <<Plain(<<"b">>)>>), Small(2, <<"a">>)>>,
    <<Large(0, <<Plain(<<"a">>)>>), Small(2, <<>>)>>,
    <<Large(2, <<Plain(<<"a">>), InBlock(<<"b">>), Plain(<<"c">>)>>), Small(1, <<"d">>)>>,
    <<Small(1, <<>>), Small(3, <<"b">>)>> }

Of(aware, empty, mode) == [aware |-> aware, empty |-> empty, mode |-> mode]

MCReceiver == {
    Of(TRUE, FALSE, [i \in 0..2 |-> "disk"]),
    Of(TRUE, TRUE, [i \in 0..2 |-> "memory"]),
    Of(FALSE, TRUE, [i \in 0..2 |-> IF i = 1 THEN "disk" ELSE "memory"]),
    Of(FALSE, FALSE, [i \in 0..2 |-> IF i = 0 THEN "disk" ELSE "memory"]),
    Of(FALSE, FALSE, [i \in {0, 2} |-> IF i = 0 THEN "disk" ELSE "memory"]) }

MCWork == {
    StoredDirectory(1) \o StoredDirectory(1),
    SmallMessage \o SmallMessage }

(* What WorkAssumption asks holds of any three messages in a row.           *)
Forms == {SmallMessage, LargeMessage(2), StoredFile(2), StoredDirectory(2)}

ASSUME FormsWaitOften == \A a, b, c \in Forms : WaitsOften(a \o b \o c)
=============================================================================
