\* Further properties on the instance of MCWebhookParser.cfg.
SPECIFICATION Spec
CONSTANTS
    Series <- MCSeries
INVARIANTS
    TypeOK
