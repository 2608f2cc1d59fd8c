----------------------------- MODULE MCUnpacker -----------------------------
(***************************************************************************)
(* Small images for TLC.  The user has id 1 outside and the range of three *)
(* ids from 5 on.                                                          *)
(***************************************************************************)
EXTENDS Unpacker

d == <<"d">>
df == <<"d", "f">>
dg == <<"d", "g">>
f == <<"f">>
g == <<"g">>

Entry(name, type, data, id) ==
    [name |-> name, type |-> type, data |-> data, uid |-> id, gid |-> id]
Dir(name, id) == Entry(name, "dir", << >>, id)
Reg(name, data, id) == Entry(name, "reg", data, id)
Symlink(name, to) == Entry(name, "symlink", to, 0)
Link(name, to) == Entry(name, "link", to, 0)
Whiteout(name) == Entry(name, "whiteout", << >>, 0)
Opaque(name) == Entry(name, "opaque", << >>, 0)
Device(name) == Entry(name, "device", << >>, 0)
At(base, entries) == [base |-> base, entries |-> entries]
Plain(entries) == At(<< >>, entries)

Bottom == Plain(<<Dir(<< >>, 0), Dir(d, 1), Reg(df, <<"1">>, 3), Link(f, df), Symlink(g, d)>>)
Small == Plain(<<Dir(d, 1), Reg(df, <<"1">>, 0), Reg(f, <<"1">>, 1)>>)

\* Layers that only do what layers usually do ...
Hiding == Plain(<<Whiteout(df), Reg(dg, <<"2">>, 2), Device(g)>>)
Replacing == Plain(<<Dir(d, 2), Opaque(d), Reg(dg, <<"2">>, 0), Reg(f, <<"2">>, 3)>>)
Below1 == At(d, <<Reg(g, <<"2">>, 1), Symlink(<<"h">>, f)>>)
\* ... and ones that change kinds, write through links or fail.
ThroughLink == Plain(<<Reg(<<"g", "f">>, <<"2">>, 0), Reg(g, <<"2">>, 0)>>)
OtherKind == Plain(<<Dir(f, 0), Symlink(g, f), Reg(g, <<"3">>, 0)>>)
LateMarker == Plain(<<Reg(dg, <<"2">>, 0), Opaque(d), Whiteout(<<"f", "h">>)>>)
Unmapped == Plain(<<Reg(f, <<"2">>, 4)>>)
Lost == At(<<"e">>, <<Reg(f, <<"2">>, 0)>>)
\* Markers behind a link, and for a directory that is hidden already.
BehindLink == Plain(<<Whiteout(<<"g", "f">>), Reg(dg, <<"2">>, 0)>>)
HiddenTwice == Plain(<<Whiteout(d), Opaque(d)>>)
Nothing == At(<<"e">>, << >>)
LinkBelow == At(d, <<Reg(g, <<"2">>, 0), Link(<<"h">>, g), Opaque(<<"e">>)>>)
\* The root directory given to somebody else.
RootOwned == Plain(<<Dir(<< >>, 1), Reg(f, <<"1">>, 2)>>)

MCImages == {<<Bottom, Hiding>>, <<Small, Replacing>>, <<Small, Below1>>,
             <<Bottom, ThroughLink>>, <<Bottom, OtherKind>>, <<Small, LateMarker>>,
             <<Small, Unmapped>>, <<Small, Lost>>, <<Bottom, LinkBelow>>,
             <<Bottom, BehindLink>>, <<Small, HiddenTwice>>, <<Small, Nothing>>,
             <<RootOwned, Small>>, <<Small, RootOwned>>}

OneRange == readSubIDMapping(1, <<<<5, 3>>>>)
TwoRanges == readSubIDMapping(1, <<<<5, 3>>, <<10, 4>>>>)
Elsewhere == <<Mapping(1, 0, 1), Mapping(5, 3, 3)>>

Run(image, root, uids, gids, last) ==
    [image |-> image, root |-> root, uidMappings |-> uids, gidMappings |-> gids, last |-> last]

\* Every image by root and by the user; the other mappings with one image.
MCCommands ==
    {Run(i, r, OneRange, OneRange, "none") : i \in MCImages, r \in BOOLEAN} \cup
    {Run(i, r, OneRange, OneRange, "collect") :
        i \in {<<Bottom, Hiding>>, <<Small, Unmapped>>}, r \in BOOLEAN} \cup
    {Run(i, TRUE, << >>, << >>, "none") : i \in MCImages} \cup
    {Run(<<Small, Replacing>>, r, m[1], m[2], "destroy-image") :
        r \in BOOLEAN,
        m \in {<< << >>, << >> >>, <<OneRange, << >> >>, << << >>, OneRange>>,
               <<OneRange, TwoRanges>>, <<Elsewhere, Elsewhere>>}}

MCUser == <<1, 1>>

MCMappings == {<< >>, OneRange, TwoRanges, Elsewhere}
MCLayers == UNION {{i[k] : k \in DOMAIN i} : i \in MCImages}
=============================================================================
