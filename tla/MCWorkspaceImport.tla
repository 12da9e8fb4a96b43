-------------------------- MODULE MCWorkspaceImport --------------------------
(* WorkspaceImport on small packages. *)
EXTENDS WorkspaceImport, SequencesExt

LOCAL Host(name, secret) == [name |-> name, valid |-> TRUE, ref |-> 0, secret |-> secret]
LOCAL Tunnel(name, ref)  == [name |-> name, valid |-> TRUE, ref |-> ref, secret |-> FALSE]
LOCAL Snippet(name)      == Tunnel(name, 0)

LOCAL Package(hosts, tunnels, snippets, keys) ==
    [host |-> hosts, tunnel |-> tunnels, snippet |-> snippets, key |-> keys]

(* WEB differs from Web in the case of a letter beyond ASCII *)
Web  == <<"web">>
WEB  == <<"WEB">>
Web2 == <<"web", 2>>

(* two hosts, one named as a copy of the other, and a tunnel on the second *)
TwoHosts == Package(<<Host(Web, TRUE), Host(Web2, TRUE)>>, <<Tunnel(Web, 2)>>, <<>>, <<>>)

(* a host and a key without their secrets, and a snippet *)
NoSecrets == Package(<<Host(Web, FALSE)>>, <<>>, <<Snippet(Web)>>, <<Host(Web, FALSE)>>)

(* a tunnel whose host the package does not have; a key that is not valid *)
BadTunnel == Package(<<Host(Web, TRUE)>>, <<Tunnel(Web, 0)>>, <<>>, <<>>)
BadKey    == Package(<<Host(Web2, TRUE)>>, <<>>, <<>>,
                     <<[Host(Web, TRUE) EXCEPT !.valid = FALSE]>>)

(* a snippet that is imported again and again *)
OneSnippet == Package(<<>>, <<>>, <<Snippet(Web)>>, <<>>)

Packages == {TwoHosts, NoSecrets, BadTunnel, BadKey, OneSnippet}

Items == UNION {ToSet(p[k]) : p \in Packages, k \in PackageKind}

OwnNames == {Web, WEB}

LowerCase(name) == [name EXCEPT ![1] = "web"]

=============================================================================
