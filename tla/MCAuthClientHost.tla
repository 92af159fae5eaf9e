--------------------------- MODULE MCAuthClientHost ---------------------------
(* Program.cs: the services over http and https, then the tester.  A round of *)
(* the first two is three calls of AspCertsDemo, the tester's is one of       *)
(* AuthDemo.Server.  The calls of CertsAuthService may be refused.            *)
EXTENDS AuthClientHost

MCRound == << <<"certs", "certs", "certs">>, <<"certs", "certs", "certs">>, <<"api">> >>
MCRefuses == {<<1, 3>>, <<2, 2>>}
=============================================================================
