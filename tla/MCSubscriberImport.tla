-------------------------- MODULE MCSubscriberImport --------------------------
(* An instance of SubscriberImport: three rows in two chunks, of which the    *)
(* first has two rows of one address in two spellings, one of them short, and *)
(* the second an address not valid.                                          *)
EXTENDS SubscriberImport

MCEmailOf == <<"ann", "ann", "bob">>
MCSpellingOf == <<"ann", " ann", "bob">>
MCInvalid == {3}
MCShort == {2}

=============================================================================
