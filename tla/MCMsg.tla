------------------------------- MODULE MCMsg -------------------------------
EXTENDS Msg
MCPayloads == {<<2>>, <<1, 0>>, <<3, 1, 2>>}
=============================================================================
