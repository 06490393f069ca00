---- MODULE MCTasks ----
EXTENDS Tasks, TLC

CONSTANTS timer, once, a, b, bad
====
