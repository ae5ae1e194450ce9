----------------------------- MODULE MCMetadata -----------------------------
(* A small instance of Metadata: a channel of two members, one of them the  *)
(* account itself, a stranger, three keys for a limit of two.  x and y are  *)
(* avatars, and x is also the file of a message.                            *)
EXTENDS Metadata, TLC

MCAttach == [m \in Media |-> {m \o ".png"}]
MCAvatar == [m \in Media |-> m \o ".png"]
MCProbed == [m \in Media |-> <<m \o ".png", m \o ".bin">>]
MCMembers == <<"bob", "me">>
MCAvatars == [n \in Nicks |-> CASE n = "bob" -> {"x", "y", ""}
                                [] n = "me" -> {"x"}
                                [] OTHER -> {""}]
AllFaults == {"net", "io", "crash"}

Cmd(op, target, keys) == [op |-> op, target |-> target, keys |-> keys]
File(m) == [op |-> "file", media |-> m]
Sync(g) == Cmd("sync", g, <<>>)
Sub(ks) == Cmd("sub", "#c", ks)
Unsub(ks) == Cmd("unsub", "#c", ks)

MCLater == <<File("x")>>

MCScripts == {
    <<Sub(<<"avatar">>), File("x"), Sync("#c")>>,
    <<Sub(<<"avatar">>), Sync("#c"), Cmd("get", "bob", <<>>)>>,
    <<Sub(<<"avatar">>), Sync("bob")>>,
    <<Sub(<<"a", "!", "avatar", "b">>), Unsub(<<"!", "a">>), Cmd("subs", "#c", <<>>)>>,
    <<Sub(<<"avatar", "a">>), Sub(<<"b">>), Unsub(<<"b">>), Cmd("refused", "#c", <<>>)>>,
    <<Cmd("subs", "#c", <<>>), Sync("#c"), Sync("#c")>>,
    <<Cmd("get", "bob", <<>>), Cmd("list", "bob", <<>>), Cmd("get", "#c", <<>>)>>,
    <<Cmd("list", "me", <<>>), Cmd("get", "nobody", <<>>), Sync("bob")>> }
=============================================================================
