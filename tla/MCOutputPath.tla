---------------------------- MODULE MCOutputPath ----------------------------
(* Instances of OutputPath: paths with the characters U+AC00 and U+AC01,    *)
(* which decompose into two and three code points and have two bytes in the *)
(* code page.                                                               *)
EXTENDS OutputPath

Text(v) == [kind |-> "text", v |-> v]
Raw(v) == [kind |-> "raw", v |-> v]
Path == [kind |-> "path", v |-> <<>>]

Map(l, r) == [local |-> Utf8(l), remote |-> Utf8(r), sep |-> Auto]

\* /p|c:\<AC00> and /p/s/|D:x
MCW32 == <<Map(<<47, 112>>, <<99, 58, 92, 44032>>), Map(<<47, 112, 47, 115, 47>>, <<68, 58, 92, 120>>)>>

\* /p|/<AC01>
MCMac == <<Map(<<47, 112>>, <<47, 44033>>)>>

\* /p|m:q|:
MCSep == <<[local |-> <<47, 112>>, remote |-> <<109, 58, 113>>, sep |-> 58]>>

\* /p|/r|
MCEmpty == <<[local |-> <<47, 112>>, remote |-> <<47, 114>>, sep |-> 0]>>

MCSetups ==
    {[plat |-> "w32", maps |-> MCW32, cwd |-> c] :
        c \in {<<47, 112>>, <<47, 112, 47, 44033>>, <<47, 112, 47, 115>>, <<47, 112, 115>>}}
    \cup {[plat |-> "mac", maps |-> MCMac, cwd |-> c] :
        c \in {<<47, 112, 47, 44032>>, <<47, 112, 47, 100, 47, 100, 47, 100, 47, 100>>}}
    \cup {[plat |-> "psx", maps |-> MCSep, cwd |-> <<47, 112>>],
          [plat |-> "psx", maps |-> MCEmpty, cwd |-> <<47, 112, 47, 100>>],
          [plat |-> "psx", maps |-> <<>>, cwd |-> <<47, 112>>]}

MCOutUnits ==
    [w32 |-> {Path, Text(<<NL>>), Text(<<SPACE>>), Text(<<44032>>), Text(<<44033>>), Raw(<<129>>)},
     mac |-> {Path, Text(<<NL>>), Text(<<4352>>), Text(<<4449>>), Text(<<4520>>), Text(<<44032>>),
              Raw(<<225>>), Raw(<<240, 129, 132, 128>>)},
     psx |-> {Path, Text(<<NL>>), Text(<<44032>>)}]

MCErrTexts == {<<>>, <<Text(<<44032>>)>>}
=============================================================================
