------------------------------ MODULE MCFiles ------------------------------
(***************************************************************************)
(* Instances of Files for TLC.  Characters of names are small numbers.     *)
(***************************************************************************)
EXTENDS Files

Phdr0(type, vaddr, memsz, data) ==
    [type |-> type, flags |-> 5, vaddr |-> vaddr, memsz |-> memsz, data |-> data]
Elf(entry, phdrs) == <<[entry |-> entry, phdrs |-> phdrs]>>
File(name, flags, elf, raw) == [name |-> name, flags |-> flags, elf |-> elf, raw |-> raw]

\* Code; code and .bss behind data; a note that is not loaded, and only .bss.
Small(x) == Elf(1, <<Phdr0(PT_LOAD, 1, 2, <<x, x + 1>>)>>)
Large(x) == Elf(2, <<Phdr0(PT_LOAD, 2, 2, <<x, x + 1>>), Phdr0(PT_LOAD, 4, 4, <<x + 2, x + 3, x + 4>>)>>)
Mixed(x) == Elf(3, <<Phdr0(4, 0, 1, <<x>>), Phdr0(PT_LOAD, 5, 2, <<>>), Phdr0(PT_LOAD, 1, 1, <<x>>),
                     Phdr0(PT_LOAD, 7, 0, <<>>)>>)

Exec == FS_TYPE_EXECUTABLE
Base == <<File(<<1>>, Exec, Small(10), <<>>), File(<<2>>, Exec, Large(20), <<>>)>>

MCFileLists ==
    {Base \o <<File(<<3>>, Exec, Mixed(30), <<>>), File(<<3, 4>>, Exec, Large(40), <<>>)>>,
     Base \o <<File(<<3, 4>>, Exec, Mixed(30), <<>>), File(<<3>>, 0, <<>>, <<50, 51, 52>>),
               File(<<4, 3, 4>>, Exec, Small(60), <<>>)>>,
     <<File(<<4, 3, 4, 3>>, 0, <<>>, <<>>)>> \o Base
        \o <<File(<<3>>, Exec, <<>>, <<50>>), File(<<3, 4>>, Exec, Large(90), <<>>)>>,
     <<>>, <<File(<<1>>, 0, <<>>, <<>>)>>, <<File(<<1>>, Exec, <<>>, <<>>)>>}

MCSlotTypes == {<<18, 2>>, <<0, 18>>}
MCWords == {<<3>>, <<3, 4>>, <<4, 3, 4>>, <<5>>}
=============================================================================
