------------------------------- MODULE MCFlow -------------------------------
(* Instances of AuthorizationFlow. *)
EXTENDS AuthorizationFlow, TLC

CONSTANTS u1, u2, a1, s1, s2, h1, h2

ContainerA == <<"db", "a">>
ContainerB == <<"db", "b">>
Containers == {ContainerA, ContainerB}
Folder     == <<"folder">> \o Mcp
Paths      == {<<>>, Mcp, Folder}

At(h, path) == [origin |-> h, path |-> path]
A    == At(h1, ContainerA)
B    == At(h1, ContainerB)
Urls == {A, UnderPath(A, Mcp), UnderPath(A, Folder), UnderPath(B, Mcp), B, At(h1, <<>>),
         At(h2, ContainerA), At(h2, ContainerB)}
Pins == {Unpinned, A, At(h1, <<>>)}

Https == [scheme |-> "https", userinfo |-> "", host |-> "host", port |-> "p1", path |-> "/cb",
          params |-> "", query |-> "", fragment |-> FALSE, wildcard |-> FALSE]
Loop  == [Https EXCEPT !.scheme = "http", !.host = "localhost"]
Ported == [Loop EXCEPT !.port = "p2"]
Loose  == [Loop EXCEPT !.userinfo = "u", !.params = "x", !.fragment = TRUE]
Uris  == {Https, Loop, Ported, Loose, [Loop EXCEPT !.path = "/other"],
          [Loop EXCEPT !.host = "127.0.0.1"], [Loop EXCEPT !.fragment = TRUE],
          [Https EXCEPT !.scheme = "http"], [Https EXCEPT !.wildcard = TRUE],
          [Https EXCEPT !.scheme = "script"], [Https EXCEPT !.scheme = "word", !.host = ""]}

Native == [redirects |-> {Https, Loop}, grants |-> GrantType, responses |-> {"code"},
           scope |-> {s1, s2}]
Tries  == {Native, [Native EXCEPT !.grants = {"refresh_token"}], [Native EXCEPT !.scope = {s2}]}
          \cup {[Native EXCEPT !.redirects = {u}] : u \in Uris \ {Https, Loop, Ported, Loose}}

Plain == [client |-> a1, redirect |-> Ported, scope |-> {s1}, resources |-> Unasked]
Asks  == {Plain,
          [Plain EXCEPT !.redirect = [Loop EXCEPT !.path = "/other"]],
          [Plain EXCEPT !.redirect = Loose, !.resources = {}],
          [Plain EXCEPT !.redirect = [Loop EXCEPT !.host = "127.0.0.1"]],
          [Plain EXCEPT !.redirect = Https, !.scope = {s1, s2}],
          [Plain EXCEPT !.resources = {UnderPath(A, Mcp), UnderPath(A, Folder)}],
          [Plain EXCEPT !.resources = {UnderPath(B, Mcp)}]}

Wanted == {{}, {A}, {UnderPath(A, Mcp)}, {UnderPath(A, Folder)}, {B}}

Symmetry == Permutations(User)
=============================================================================
