---- MODULE MCRuntime ----
EXTENDS Runtime
====
