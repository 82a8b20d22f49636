------------------------ MODULE MCPlainMessageQueue ------------------------
\* A small instance of PlainMessageQueue: two distinct messages, so that their
\* order shows, pushed up to three times while two threads wait.
EXTENDS PlainMessageQueue
=============================================================================
