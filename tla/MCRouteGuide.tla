---------------------------- MODULE MCRouteGuide ----------------------------
EXTENDS RouteGuide, AggregateValidator
=============================================================================
