----------------------------- MODULE MCCodeMemory -----------------------------
(***************************************************************************)
(* Small instances of CodeMemory for TLC.                                  *)
(***************************************************************************)
EXTENDS CodeMemory

\* A map whose ranges have the kinds and sizes (in pages) of the list.
RECURSIVE Mapped(_, _)
Mapped(list, addr) ==
  IF list = <<>> THEN <<>>
  ELSE LET size == Head(list)[2] * PageSize
       IN  <<[addr |-> addr, size |-> size, kind |-> Head(list)[1]]>> \o Mapped(Tail(list), addr + size)

Gap(n)    == <<"other", n>>
Module(n) == << <<"rx", n>>, <<"r", 1>>, <<"rw", 1>> >>

\* Fourteen pages: rtld, the game and our module, side by side and behind text that is no
\* module's, or with a gap among them; text that is not followed by
\* data; as many modules as s_MaxModules.
SomeMaps == {
  Mapped(<<Gap(2)>> \o Module(1) \o <<Gap(1)>> \o Module(2) \o Module(2), 0),
  Mapped(<<Gap(1), <<"rx", 1>>, <<"rw", 1>> >> \o Module(1) \o Module(1) \o Module(2) \o <<Gap(1)>>, 0),
  Mapped(<<Gap(4), <<"rx", 2>>, <<"r", 2>>, Gap(6)>>, 0),
  Mapped(<<Gap(1)>> \o Module(1) \o Module(1) \o Module(1) \o Module(1) \o <<Gap(1)>>, 0) }
SpareSpace == {PageSize * n : n \in {0, 1, 2, 4, 5, 8}}
=============================================================================
