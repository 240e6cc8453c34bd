-------------------------------- MODULE MCIpc --------------------------------
(* A payload of each length around kIpcMaxMessageSize = 1.  With           *)
(* SocketBuffer = 4 a frame that has a body never fits the stream.         *)
EXTENDS IpcServer

MCMessages == {<<>>, <<1>>, <<1, 1>>}
=============================================================================
