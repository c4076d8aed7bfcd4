\* Three events, of each of the three clients.
SPECIFICATION Spec
CONSTANTS
    MaxEvents = 3
    Clients <- AllClients
INVARIANTS CountsExact ListsExact NoFatal
PROPERTIES ImplementsDelivery
