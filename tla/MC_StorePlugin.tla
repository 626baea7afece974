-------------------------- MODULE MC_StorePlugin --------------------------
EXTENDS StorePlugin
====
