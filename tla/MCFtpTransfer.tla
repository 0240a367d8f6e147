--------------------------- MODULE MCFtpTransfer ---------------------------
(* The data transfers of an FTP session, for model checking: the constants  *)
(* are numbers, which the configurations give.                              *)
EXTENDS FtpTransfer
=============================================================================
