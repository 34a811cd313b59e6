--------------------------- MODULE MCCronSchedules ---------------------------
\* A small instance of CronSchedules: hours 0..MaxTime, cadences of one and of
\* three hours, and rows of the milestones table as model values.
EXTENDS CronSchedules

MCPeriods == {1, 3}
=============================================================================
