------------------------- MODULE MC_PluginController -------------------------
EXTENDS PluginController
====
