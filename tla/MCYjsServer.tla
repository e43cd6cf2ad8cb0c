---- MODULE MCYjsServer ----
EXTENDS YjsServer
====
