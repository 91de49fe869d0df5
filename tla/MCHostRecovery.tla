----------------------------- MODULE MCHostRecovery -----------------------------
(***************************************************************************)
(* A small instance of HostRecovery for TLC: every row of four bytes with   *)
(* one good vtable section, and every small vtable section with one name.   *)
(***************************************************************************)
EXTENDS HostRecovery

Name == <<1, 2>>

Op(op, base, field) == [op |-> op, base |-> base, field |-> field]
Good == <<Op("load", "rcx", 8), Op("inc", "rcx", 4), Op("store", "rcx", 8), Op("ret", "none", 0)>>
Late == <<Op("load", "rcx", 8), Op("ret", "none", 0), Op("inc", "rcx", 4), Op("store", "rcx", 8)>>
Twice == <<Op("load", "rcx", 8), Op("inc", "rcx", 4), Op("inc", "rcx", 5), Op("store", "rcx", 8)>>
Bodies == [scheduler |-> Good, late |-> Late, twice |-> Twice]

GoodWords == <<<<"locator", 0>>, <<"locator", 3>>, <<"ref", 1>>, <<"code", "late">>,
               <<"ref", 2>>, <<"code", "scheduler">>>>
WordRange == {<<"ref", 1>>, <<"ref", 2>>, <<"code", "scheduler">>, <<"code", "twice">>}

GoodBytes == <<0, 1, 2>>

ImageSet ==
    {[bytes |-> b, words |-> GoodWords, bodies |-> Bodies] : b \in [1..4 -> 0..2]}
    \cup
    {[bytes |-> GoodBytes, bodies |-> Bodies,
      words |-> <<<<"locator", 0>>, <<"locator", 3>>>> \o w] : w \in [1..4 -> WordRange]}

\* Page 0 belongs to an image.
PrivatePages == 1..6

================================================================================
