---------------------------- MODULE MCFtpSession ----------------------------
\* Two clients: one that works on files, and one that walks about and lists.
EXTENDS FtpSession

CONSTANTS c1, c2, d1, g1, f1

MCClients == {c1, c2}
MCPaths == {<<d1>>, <<g1>>, <<d1, f1>>}
Looks  == {"user", "pass", "cwd", "cdup", "pasv", "port", "list"}
MCDoes == c1 :> (Commands \ (Looks \ {"user", "pass"})) @@ c2 :> Looks
=============================================================================
