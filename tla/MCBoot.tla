------------------------------- MODULE MCBoot -------------------------------
EXTENDS Boot

Load(offset, paddr, filesz) == [load |-> TRUE, offset |-> offset, paddr |-> paddr, filesz |-> filesz]
Note == [load |-> FALSE, offset |-> 3, paddr |-> 5, filesz |-> 1]
MCElf ==
    [class64 : BOOLEAN, entry : 4 .. 6, tables : {8, 20},
     segments : {<<Load(2, 4, 3)>>, <<Note, Load(1, 4, 3), Load(8, 12, 2)>>, <<Note>>, <<>>,
                 <<Load(2, 4, 5)>>, <<Load(9, 4, 4)>>}]
MCArchive == {<<>>, <<"bg.raw", "userland.elf">>, <<"bar.txt", "bg.raw">>, <<"100%", "userland.elf">>,
              <<"bg.raw", "userland.elf", "userland.elf">>}
MCFormats == {"100%"}
=============================================================================
