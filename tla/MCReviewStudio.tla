---------------------------- MODULE MCReviewStudio ----------------------------
EXTENDS ReviewStudio
===============================================================================
