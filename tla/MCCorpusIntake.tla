--------------------------- MODULE MCCorpusIntake ---------------------------
(***************************************************************************)
(* One document of two bytes, served by one portal as a workbook and by    *)
(* another as a plain archive, both of which its leading bytes allow; cut  *)
(* short without and with a declared length; as a login page; and brought  *)
(* as a file by two operators who disagree about what it is.               *)
(***************************************************************************)
EXTENDS CorpusIntake

Served(source, bytes, sniffed, media, declared) ==
    [kind |-> "crawl", source |-> source, content |-> "c", bytes |-> bytes,
     sniffed |-> sniffed, media |-> media, name |-> Unstated,
     declared |-> declared, encoded |-> FALSE]

Brought(type, by) ==
    [kind |-> "file", source |-> "desk", content |-> "c", bytes |-> 2,
     format |-> "xlsx", type |-> type, by |-> by]

SomeItems ==
    {Served("p", 2, "zip", "xlsx", 2), Served("q", 2, "zip", "xlsx", NoLength),
     Served("q", 2, "zip", "zip", 2),
     Served("p", 1, "zip", "xlsx", NoLength), Served("p", 1, "zip", "xlsx", 2),
     Served("p", 2, Unconfirmed, "pdf", 2),
     Brought("boq", "ann"), Brought("tender_notice", "ann"), Brought("boq", "bob")}

SomeAllowed == {"xlsx", "zip", "pdf"}
SomeDigests == {<<"c", 1>>, <<"c", 2>>}
SomeKeys == {KeyOf(i) : i \in {j \in Items : FormatOf(j) # Refused}}

=============================================================================
