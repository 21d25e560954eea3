------------------------- MODULE MCPosixChatClient -------------------------
(* PosixChatClient on a small instance.                                    *)
EXTENDS PosixChatClient

=============================================================================
